---------------------------- MODULE Spec2Model ----------------------------
(***************************************************************************)
(* Model of the schedCU coverage tools of                                  *)
(* reimplement/cmd/validate-coverage: the coverage-grid validator          *)
(* (parse_coverage_grid.py), the hour viewer (hour_viewer.py), the         *)
(* natural-language summary (natural_language_summary.py) and the          *)
(* shift-list validator (parse_ods.py).                                    *)
(*                                                                         *)
(* A Python str is a sequence of one-character strings, so that lower(),   *)
(* strip(), ' '.join() and the `in` substring test are computed, not       *)
(* assumed.  A Python dict is an association list << <<key, value>>, ... >>*)
(* in insertion order; a Python set is a set.                              *)
(*                                                                         *)
(* The input file is a record                                              *)
(*   [kind   : how far the file can be read,                               *)
(*    tables : the table:table elements of the spreadsheet, in order]      *)
(* a table is [named, name, rows], a row is the sequence of its            *)
(* table:table-cell elements, a cell is the sequence of the .text of its   *)
(* text:p descendants in document order (<<>> stands for a .text of None   *)
(* or '').                                                                 *)
(***************************************************************************)
EXTENDS Integers, Sequences, FiniteSets, TLC

VARIABLES
    file,                 \* the content found at filepath
    pc,                   \* position of main()
    coverage_data,        \* value returned by parse_coverage_grid (a dict)
    parse_result,         \* "dict", "None" or "AttributeError"
    study_type_coverage,  \* analyze_coverage: study type -> [Weekday, Weekend]
    category_coverage,    \* analyze_coverage: category   -> [Weekday, Weekend]
    gaps,                 \* analyze_coverage: the gap list
    day_types,            \* parse_coverage_grid: (sheet_name, day_type) per table
    printed,              \* what the validation summary printed
    exit_status,          \* exit status of the process
    history,              \* the completed runs, oldest first
    tool,                 \* the program that is run on the file
    all_coverage,         \* hour viewer: the list parse_ods_coverage returned
    repl,                 \* hour viewer: the last command and what it showed
    summary_data,         \* summary: the dict its parse_coverage_grid returned
    report,               \* summary: what the generate_ functions printed
    shifts,               \* shift-list validator: the list parse_ods returned
    coverage_matrix       \* shift-list validator: study type -> counts

toolVars ==
    << tool, all_coverage, repl, summary_data, report, shifts, coverage_matrix >>

vars == << file, pc, coverage_data, parse_result, study_type_coverage,
           category_coverage, gaps, day_types, printed, exit_status,
           history, tool, all_coverage, repl, summary_data, report, shifts,
           coverage_matrix >>

-----------------------------------------------------------------------------
(* Python str operations *)

UpperChars == << "A","B","C","D","E","F","G","H","I","J","K","L","M",
                 "N","O","P","Q","R","S","T","U","V","W","X","Y","Z" >>
LowerChars == << "a","b","c","d","e","f","g","h","i","j","k","l","m",
                 "n","o","p","q","r","s","t","u","v","w","x","y","z" >>

Whitespace == { " ", "\t", "\n" }

LowerChar(c) ==
    IF \E i \in DOMAIN UpperChars : UpperChars[i] = c
    THEN LowerChars[CHOOSE i \in DOMAIN UpperChars : UpperChars[i] = c]
    ELSE c

\* str.lower()
Lower(s) == [i \in DOMAIN s |-> LowerChar(s[i])]

\* sub in s
Contains(sub, s) ==
    \E i \in 0 .. (Len(s) - Len(sub)) : SubSeq(s, i + 1, i + Len(sub)) = sub

\* str.strip()
Strip(s) ==
    LET keep == { i \in DOMAIN s : s[i] \notin Whitespace }
    IN  IF keep = {} THEN << >>
        ELSE LET lo == CHOOSE i \in keep : \A j \in keep : i <= j
                 hi == CHOOSE i \in keep : \A j \in keep : j <= i
             IN  SubSeq(s, lo, hi)

\* ' '.join(texts)
RECURSIVE JoinSpace(_)
JoinSpace(texts) ==
    IF texts = << >> THEN << >>
    ELSE IF Len(texts) = 1 THEN texts[1]
    ELSE texts[1] \o << " " >> \o JoinSpace(Tail(texts))

-----------------------------------------------------------------------------
(* Python dict operations (insertion-ordered) *)

Keys(d) == { d[i][1] : i \in DOMAIN d }
KeyList(d) == [i \in DOMAIN d |-> d[i][1]]
Has(d, k) == \E i \in DOMAIN d : d[i][1] = k
Get(d, k) == d[CHOOSE i \in DOMAIN d : d[i][1] = k][2]
Put(d, k, v) ==
    IF Has(d, k)
    THEN [i \in DOMAIN d |-> IF d[i][1] = k THEN << k, v >> ELSE d[i]]
    ELSE Append(d, << k, v >>)

\* defaultdict(lambda: {'Weekday': set(), 'Weekend': set()}) lookup
NoCoverage == [Weekday |-> {}, Weekend |-> {}]
GetOrDefault(d, k) == IF Has(d, k) THEN Get(d, k) ELSE NoCoverage

-----------------------------------------------------------------------------
(* parse_coverage_grid.py: extract_text, parse_coverage_grid *)

\* extract_text(cell): the non-empty .text of the text:p descendants, joined
\* by one space, stripped
RawText(cell) == JoinSpace(SelectSeq(cell, LAMBDA t : t # << >>))

\* extract_text that joins every paragraph, with or without text
extract_text_KeepEmpty(cell) == Strip(JoinSpace(cell))

extract_text(cell) == Strip(RawText(cell))

\* table.get('{table}name', 'Unknown')
UnknownName == << "U","n","k","n","o","w","n" >>
SheetName(table) == IF table.named THEN table.name ELSE UnknownName

WeekendWord == << "w","e","e","k","e","n","d" >>

\* ParserDayType without the lower()
ParserDayType_CaseSensitive(sheet_name) ==
    IF Contains(WeekendWord, sheet_name) THEN "Weekend" ELSE "Weekday"

\* lines 75-76: is_weekend = 'weekend' in sheet_name.lower()
ParserDayType(sheet_name) ==
    IF Contains(WeekendWord, Lower(sheet_name)) THEN "Weekend" ELSE "Weekday"

\* line 115: cell_value in ['x', 'yes', '1']
CoverageMarkers == { << "x" >>, << "y","e","s" >>, << "1" >> }
IsCoverageMarker(cell_value) == cell_value \in CoverageMarkers

\* CellValue without the lower()
CellValue_NoLower(cell) == extract_text(cell)

\* line 113: cell_value = extract_text(cell).lower()
CellValue(cell) == Lower(extract_text(cell))

\* str(i) for i >= 0
DigitChars == << "0","1","2","3","4","5","6","7","8","9" >>
RECURSIVE Str(_)
Str(i) ==
    IF i < 10 THEN << DigitChars[i + 1] >>
    ELSE Str(i \div 10) \o << DigitChars[(i % 10) + 1] >>

\* ShiftPosition that reads the header one column to the left
ShiftPosition_PreviousColumn(shift_positions, i) ==
    IF i - 1 < Len(shift_positions) THEN shift_positions[i]
    ELSE << "C","o","l","u","m","n" >> \o Str(i)

\* line 117: shift_positions[i] if i < len(shift_positions) else f"Column{i}"
\* (i is the Python index; Python index i is element i + 1 here)
ShiftPosition(shift_positions, i) ==
    IF i < Len(shift_positions) THEN shift_positions[i + 1]
    ELSE << "C","o","l","u","m","n" >> \o Str(i)

\* StoreCoverage that creates the sheet's dict anew on every store
StoreCoverage_Overwrite(cd, sheet_name, study_type, shift_position) ==
    Put(cd, sheet_name, << << study_type, << << shift_position, TRUE >> >> >> >>)

\* StoreCoverage that creates the study type's dict anew on every store
StoreCoverage_ResetStudy(cd, sheet_name, study_type, shift_position) ==
    LET cd1 == IF Has(cd, sheet_name) THEN cd ELSE Put(cd, sheet_name, << >>)
    IN  Put(cd1, sheet_name,
            Put(Get(cd1, sheet_name), study_type, << << shift_position, TRUE >> >>))

\* lines 122-127: coverage_data[sheet_name][study_type][shift_position] = True
StoreCoverage(cd, sheet_name, study_type, shift_position) ==
    LET cd1     == IF Has(cd, sheet_name) THEN cd ELSE Put(cd, sheet_name, << >>)
        studies == Get(cd1, sheet_name)
        st1     == IF Has(studies, study_type) THEN studies
                   ELSE Put(studies, study_type, << >>)
        pos     == Put(Get(st1, study_type), shift_position, TRUE)
    IN  Put(cd1, sheet_name, Put(st1, study_type, pos))

\* lines 112-127: for i, cell in enumerate(cells[1:], 1)
RECURSIVE ParseCells(_, _, _, _, _, _)
ParseCells(cd, sheet_name, study_type, shift_positions, cells, i) ==
    IF i >= Len(cells) THEN cd
    ELSE IF IsCoverageMarker(CellValue(cells[i + 1]))
         THEN ParseCells(
                  StoreCoverage(cd, sheet_name, study_type,
                                ShiftPosition(shift_positions, i)),
                  sheet_name, study_type, shift_positions, cells, i + 1)
         ELSE ParseCells(cd, sheet_name, study_type, shift_positions, cells, i + 1)

\* ParseRow without the test of lines 106-107
ParseRow_KeepBlank(cd, sheet_name, shift_positions, cells) ==
    IF cells = << >> THEN cd
    ELSE ParseCells(cd, sheet_name, extract_text(cells[1]), shift_positions, cells, 1)

\* lines 98-127: one data row
ParseRow(cd, sheet_name, shift_positions, cells) ==
    IF cells = << >> THEN cd
    ELSE LET study_type == extract_text(cells[1])
         IN  IF study_type = << >> THEN cd
             ELSE ParseCells(cd, sheet_name, study_type, shift_positions, cells, 1)

\* lines 97-127: for row in rows[1:]
RECURSIVE ParseRows(_, _, _, _, _)
ParseRows(cd, sheet_name, shift_positions, rows, r) ==
    IF r > Len(rows) THEN cd
    ELSE ParseRows(ParseRow(cd, sheet_name, shift_positions, rows[r]),
                   sheet_name, shift_positions, rows, r + 1)

\* lines 71-129: one table
ParseTable(cd, table) ==
    LET sheet_name == SheetName(table)
        rows       == table.rows
    IN  IF rows = << >> THEN cd
        ELSE LET shift_positions == [c \in DOMAIN rows[1] |-> extract_text(rows[1][c])]
             IN  ParseRows(cd, sheet_name, shift_positions, rows, 2)

\* lines 68-131: for table in tables
RECURSIVE ParseTables(_, _, _)
ParseTables(cd, tables, t) ==
    IF t > Len(tables) THEN cd
    ELSE ParseTables(ParseTable(cd, tables[t]), tables, t + 1)

\* hour_viewer.py lines 34-38: the day type parse_time_from_sheet_name derives
HourViewerDayType(sheet_name) ==
    LET name_lower == Lower(sheet_name)
        is_weekend == Contains(WeekendWord, name_lower)
    IN  IF is_weekend THEN "Weekend" ELSE "Weekday"

\* lines 71-76: the sheet name and day type computed for each table, in order
ComputedDayTypes(tables) ==
    [t \in DOMAIN tables |->
        << SheetName(tables[t]), ParserDayType(SheetName(tables[t])) >>]

-----------------------------------------------------------------------------
(* parse_coverage_grid.py: extract_study_category, analyze_coverage *)

InLower(word, study_lower) == Contains(word, study_lower)

\* extract_study_category that tests "mr" before "ct"
extract_study_category_MRFirst(study_type) ==
    LET study_lower == Lower(study_type)
        has(w)      == InLower(w, study_lower)
    IN  IF has(<< "m","r" >>) \/ has(<< "m","r","i" >>)
        THEN IF has(<< "n","e","u","r","o" >>) THEN "MRI Neuro"
             ELSE IF has(<< "b","o","d","y" >>) THEN "MRI Body"
             ELSE "MRI"
        ELSE IF has(<< "c","t" >>)
        THEN IF has(<< "n","e","u","r","o" >>) THEN "CT Neuro"
             ELSE IF has(<< "b","o","d","y" >>) THEN "CT Body"
             ELSE "CT"
        ELSE IF has(<< "u","s" >>) \/ has(<< "u","l","t","r","a","s","o","u","n","d" >>)
        THEN "Ultrasound"
        ELSE IF \/ has(<< "d","x" >>) \/ has(<< "x","-","r","a","y" >>)
                \/ has(<< "x","r","a","y" >>)
        THEN "X-Ray"
        ELSE IF has(<< "n","m" >>) \/ has(<< "n","u","c","l","e","a","r" >>)
        THEN "Nuclear Medicine"
        ELSE IF has(<< "f","l","u","o","r","o" >>) THEN "Fluoroscopy"
        ELSE IF has(<< "p","e","t" >>) THEN "PET"
        ELSE "Other"

extract_study_category(study_type) ==
    LET study_lower == Lower(study_type)
        has(w)      == InLower(w, study_lower)
    IN  IF has(<< "c","t" >>)
        THEN IF has(<< "n","e","u","r","o" >>) THEN "CT Neuro"
             ELSE IF has(<< "b","o","d","y" >>) THEN "CT Body"
             ELSE "CT"
        ELSE IF has(<< "m","r" >>) \/ has(<< "m","r","i" >>)
        THEN IF has(<< "n","e","u","r","o" >>) THEN "MRI Neuro"
             ELSE IF has(<< "b","o","d","y" >>) THEN "MRI Body"
             ELSE "MRI"
        ELSE IF has(<< "u","s" >>) \/ has(<< "u","l","t","r","a","s","o","u","n","d" >>)
        THEN "Ultrasound"
        ELSE IF has(<< "d","x" >>) \/ has(<< "x","-","r","a","y" >>)
                \/ has(<< "x","r","a","y" >>)
        THEN "X-Ray"
        ELSE IF has(<< "n","m" >>) \/ has(<< "n","u","c","l","e","a","r" >>)
        THEN "Nuclear Medicine"
        ELSE IF has(<< "f","l","u","o","r","o" >>) THEN "Fluoroscopy"
        ELSE IF has(<< "p","e","t" >>) THEN "PET"
        ELSE "Other"

\* AggregatorDayType without the lower()
AggregatorDayType_CaseSensitive(sheet_name) ==
    IF Contains(WeekendWord, sheet_name) THEN "Weekend" ELSE "Weekday"

\* lines 177-178: the aggregator derives the day type from the name again
AggregatorDayType(sheet_name) ==
    IF Contains(WeekendWord, Lower(sheet_name)) THEN "Weekend" ELSE "Weekday"

\* AddSheetName that assigns the set instead of adding to it
AddSheetName_Assign(d, key, day_type, sheet_name) ==
    LET cov == GetOrDefault(d, key)
    IN  Put(d, key, [cov EXCEPT ![day_type] = { sheet_name }])

\* AddSheetName that stores a fresh entry for the key
AddSheetName_FreshEntry(d, key, day_type, sheet_name) ==
    Put(d, key, [NoCoverage EXCEPT ![day_type] = { sheet_name }])

\* AddSheetName that makes the entry and adds no sheet name to it
AddSheetName_KeyOnly(d, key, day_type, sheet_name) ==
    Put(d, key, GetOrDefault(d, key))

\* d[key][day_type].add(sheet_name) on a defaultdict
AddSheetName(d, key, day_type, sheet_name) ==
    LET cov == GetOrDefault(d, key)
    IN  Put(d, key, [cov EXCEPT ![day_type] = @ \cup { sheet_name }])

\* AggregateStudies that tracks a category only the first time it is met
RECURSIVE AggregateStudies_CategoryOnce(_, _, _, _, _)
AggregateStudies_CategoryOnce(agg, sheet_name, day_type, studies, j) ==
    IF j > Len(studies) THEN agg
    ELSE LET study_type == studies[j][1]
             category   == extract_study_category(study_type)
         IN  AggregateStudies_CategoryOnce(
                 [stc |-> AddSheetName(agg.stc, study_type, day_type, sheet_name),
                  cc  |-> IF Has(agg.cc, category) THEN agg.cc
                          ELSE AddSheetName(agg.cc, category, day_type, sheet_name)],
                 sheet_name, day_type, studies, j + 1)

\* lines 180-186: for study_type, positions in studies.items()
\* agg is [stc |-> study_type_coverage, cc |-> category_coverage]
RECURSIVE AggregateStudies(_, _, _, _, _)
AggregateStudies(agg, sheet_name, day_type, studies, j) ==
    IF j > Len(studies) THEN agg
    ELSE LET study_type == studies[j][1]
             category   == extract_study_category(study_type)
         IN  AggregateStudies(
                 [stc |-> AddSheetName(agg.stc, study_type, day_type, sheet_name),
                  cc  |-> AddSheetName(agg.cc, category, day_type, sheet_name)],
                 sheet_name, day_type, studies, j + 1)

\* lines 172-186: for sheet_name, studies in coverage_data.items()
RECURSIVE Aggregate(_, _, _)
Aggregate(agg, cd, s) ==
    IF s > Len(cd) THEN agg
    ELSE Aggregate(
             AggregateStudies(agg, cd[s][1], AggregatorDayType(cd[s][1]), cd[s][2], 1),
             cd, s + 1)

MissingWeekday ==
    << " ","-"," ","M","i","s","s","i","n","g"," ","W","E","E","K","D","A","Y",
       " ","c","o","v","e","r","a","g","e" >>
MissingWeekend ==
    << " ","-"," ","M","i","s","s","i","n","g"," ","W","E","E","K","E","N","D",
       " ","c","o","v","e","r","a","g","e" >>

\* GapsOf with the second test copied from the first
GapsOf_SameTest(study_type, coverage) ==
    (IF coverage.Weekday = {} THEN << study_type \o MissingWeekday >> ELSE << >>)
    \o (IF coverage.Weekday = {} THEN << study_type \o MissingWeekend >> ELSE << >>)

\* lines 242-245: the gaps of one study type
GapsOf(study_type, coverage) ==
    (IF coverage.Weekday = {} THEN << study_type \o MissingWeekday >> ELSE << >>)
    \o (IF coverage.Weekend = {} THEN << study_type \o MissingWeekend >> ELSE << >>)

\* lines 238-245: for study_type, coverage in study_type_coverage.items()
RECURSIVE FindGaps(_, _, _)
FindGaps(found, stc, k) ==
    IF k > Len(stc) THEN found
    ELSE FindGaps(found \o GapsOf(stc[k][1], stc[k][2]), stc, k + 1)

\* Verdict that tolerates one gap
Verdict_OffByOne(gap_list) == IF Len(gap_list) <= 1 THEN "PASSED" ELSE "FAILED"

\* lines 270-276: the verdict line of the validation summary
Verdict(gap_list) == IF Len(gap_list) = 0 THEN "PASSED" ELSE "FAILED"

-----------------------------------------------------------------------------
(* The documents the validator is run on *)

MaxSheets == 2      \* tables per document
MaxCellParts == 2   \* tokens per generated cell text
MaxNameParts == 3   \* tokens per generated sheet name
MaxColumns == 3     \* marker cells per generated row
MaxLabelParts == 2  \* tokens per generated study-type label

Cell(text) == << text >>     \* a cell with one paragraph
EmptyCell == << >>           \* a cell with no paragraph

Study == << "S","t","u","d","y" >>
CT == << "C","T" >>
MR == << "M","R" >>
CTHead == << "c","t"," ","h","d" >>
X == << "x" >>

HeaderRow == << Cell(Study), Cell(<< "N","1" >>) >>

CoveredCT == << Cell(CT), Cell(X) >>
ListedCT == << Cell(CT), EmptyCell >>       \* listed, not covered
CoveredMR == << Cell(MR), Cell(X) >>
CoveredBlank == << EmptyCell, Cell(X) >>    \* blank study type with a marker
CoveredCTHead == << Cell(CTHead), Cell(X) >>
NoCells == << >>                            \* a row without cells

DataRows == { CoveredCT, ListedCT, CoveredMR, CoveredBlank, CoveredCTHead, NoCells }

\* the row lists of the sheets of documents with several sheets
SheetRowLists ==
    { << >>,
      << HeaderRow, CoveredCT >>,
      << HeaderRow, ListedCT >>,
      << HeaderRow, CoveredMR >>,
      << HeaderRow, CoveredBlank >>,
      << HeaderRow, CoveredCTHead >>,
      << HeaderRow, CoveredCT, CoveredMR >>,
      << HeaderRow, ListedCT, CoveredMR >> }

\* the row lists of the sheet of documents with one sheet
RowLists ==
    { << >>, << HeaderRow >> }
    \cup { << HeaderRow, r >> : r \in DataRows }
    \cup { << HeaderRow, r, q >> : r \in DataRows, q \in DataRows }

WeekdayName == << "W","e","e","k","d","a","y" >>
WeekEndName == << "W","e","e","k","E","n","d" >>

Named(name, rows) == [named |-> TRUE, name |-> name, rows |-> rows]
Unnamed(rows) == [named |-> FALSE, name |-> << >>, rows |-> rows]

TablesOver(lists) ==
    { Named(n, rows) : n \in { WeekdayName, WeekEndName }, rows \in lists }
    \cup { Unnamed(rows) : rows \in lists }
Tables == TablesOver(SheetRowLists)

\* all sequences over S of length 0 .. n
SeqsUpTo(S, n) == UNION { [1 .. k -> S] : k \in 0 .. n }

RECURSIVE Concat(_)
Concat(parts) ==
    IF parts = << >> THEN << >> ELSE parts[1] \o Concat(Tail(parts))

OkFile(tables) == [kind |-> "ok", tables |-> tables]

\* row lists whose first row, the header, looks like a data row
HeaderLikeLists ==
    { << r >> : r \in DataRows } \cup { << r, q >> : r \in DataRows, q \in DataRows }
    \cup { << r, CoveredBlank, CoveredCT >> : r \in DataRows }

\* documents of up to MaxSheets tables, and documents of one table
GridFiles ==
    { OkFile(ts) : ts \in SeqsUpTo(Tables, MaxSheets) }
    \cup { OkFile(<< t >>) : t \in TablesOver(RowLists \cup HeaderLikeLists) }

\* one-sheet documents with headers of 0 to 3 cells and one or two data rows
\* of up to MaxColumns marker cells
Headers ==
    { << >>, << Cell(Study) >>, HeaderRow,
      << Cell(Study), Cell(<< "N","1" >>), Cell(<< "N","2" >>) >> }
MarkLists == SeqsUpTo({ Cell(X), EmptyCell }, MaxColumns)
ShapeRows(label) == { << Cell(label) >> \o marks : marks \in MarkLists }
SecondRows ==
    ShapeRows(CT) \cup { << Cell(MR), Cell(X) >>, << Cell(MR), EmptyCell, Cell(X) >> }
ShapeFiles ==
    { OkFile(<< Named(WeekdayName, << h, r >>) >>) : h \in Headers, r \in ShapeRows(CT) }
    \cup { OkFile(<< Named(WeekdayName, << h, r, q >>) >>) :
             h \in Headers, r \in ShapeRows(CT), q \in SecondRows }

\* one-row documents whose marker cell holds a generated text, in one
\* paragraph or split over two
CellTokens ==
    { << "x" >>, << "X" >>, << " " >>, << "y","e","s" >>, << "Y","e","S" >>,
      << "1" >>, << "2" >>, << "n","o" >> }
CellTexts == { Concat(parts) : parts \in SeqsUpTo(CellTokens, MaxCellParts) }
GeneratedCells ==
    { Cell(t) : t \in CellTexts }
    \cup { << t, u >> : t \in CellTokens \cup { << >> }, u \in CellTokens \cup { << >> } }
CellFiles ==
    { OkFile(<< Named(WeekdayName, << HeaderRow, << Cell(CT), c >> >>) >>) :
        c \in GeneratedCells }

\* one-sheet documents whose study-type cell is generated
ThreeParagraphCells ==
    { << t, << >>, u >> : t \in { << "x" >>, << " " >>, << "n","o" >> },
                          u \in { << "x" >>, << " " >>, << "n","o" >> } }
TextFiles ==
    { OkFile(<< Named(WeekdayName, << HeaderRow, << c, Cell(X) >> >>) >>) :
        c \in GeneratedCells \cup ThreeParagraphCells }

\* one-sheet documents whose sheet name is generated
NameTokens ==
    { << "W","e","e","k" >>, << "w","e","e","k" >>, << "e","n","d" >>,
      << "E","N","D" >>, << "d","a","y" >>, << " " >> }
SheetNames == { Concat(parts) : parts \in SeqsUpTo(NameTokens, MaxNameParts) }
NameFiles ==
    { OkFile(<< Named(n, << HeaderRow, << Cell(CT), Cell(X) >> >>) >>) :
        n \in SheetNames }

\* one-sheet documents whose one study-type label is generated
LabelTokens ==
    { << "c","t" >>, << "M","R" >>, << "u","s" >>, << "d","x" >>,
      << "x","-","r","a","y" >>, << "X","r","a","y" >>, << "n","m" >>,
      << "N","u","c","l","e","a","r" >>, << "f","l","u","o","r","o" >>,
      << "P","e","t" >>, << "n","e","u","r","o" >>, << "B","O","D","Y" >>,
      << " " >>, << "z","z" >> }
StudyLabels == { Concat(parts) : parts \in SeqsUpTo(LabelTokens, MaxLabelParts) }
LabelFiles ==
    { OkFile(<< Named(WeekdayName, << HeaderRow, << Cell(l), Cell(X) >> >>) >>) :
        l \in StudyLabels }

\* the documents of the specification's scenarios 1 and 2
Scenario1Name ==
    << "W","e","e","k","d","a","y"," ","5","-","6"," ","P","M"," ","N","e","u","r","o" >>
Neuro1 == << "N","E","U","R","O","1" >>
CPMCCTNeuro == << "C","P","M","C"," ","C","T"," ","N","e","u","r","o" >>
Scenario1File ==
    OkFile(<< Named(Scenario1Name,
                    << << Cell(Study), Cell(Neuro1) >>,
                       << Cell(CPMCCTNeuro), Cell(X) >> >>) >>)

WeekdayOvernight ==
    << "W","e","e","k","d","a","y"," ","O","v","e","r","n","i","g","h","t" >>
WeekendOvernight ==
    << "W","e","e","k","e","n","d"," ","O","v","e","r","n","i","g","h","t" >>
AllenMRBody == << "A","l","l","e","n"," ","M","R"," ","B","o","d","y" >>
Scenario2File ==
    OkFile(<< Named(WeekdayOvernight, << HeaderRow, << Cell(AllenMRBody), Cell(X) >> >>),
              Named(WeekendOvernight, << HeaderRow, << Cell(AllenMRBody), Cell(X) >> >>) >>)

ScenarioFiles == { Scenario1File, Scenario2File }

\* files that cannot be read as a spreadsheet document
BrokenKinds == { "not_zip", "no_content", "malformed", "no_body", "no_spreadsheet" }
BrokenFiles == { [kind |-> k, tables |-> << >>] : k \in BrokenKinds }

\* two-sheet documents of sheets named "Unknown" or "unknown" and sheets
\* without a name, with the position header "N1" or "N2"
LowerUnknownName == << "u","n","k","n","o","w","n" >>
SecondHeaderRow == << Cell(Study), Cell(<< "N","2" >>) >>
UnknownRowLists ==
    { << HeaderRow, CoveredCT >>, << SecondHeaderRow, CoveredCT >>,
      << HeaderRow, CoveredMR >> }
UnknownTables ==
    { Named(n, rows) : n \in { UnknownName, LowerUnknownName },
                       rows \in UnknownRowLists }
    \cup { Unnamed(rows) : rows \in UnknownRowLists }
UnknownFiles ==
    { OkFile(<< t, u >>) : t \in UnknownTables, u \in UnknownTables }

Files ==
    GridFiles \cup ShapeFiles \cup CellFiles \cup TextFiles \cup NameFiles
    \cup LabelFiles   \cup UnknownFiles
    \cup ScenarioFiles    \cup BrokenFiles

-----------------------------------------------------------------------------
(* main() *)

NothingPrinted ==
    [verdict |-> "none", gap_count |-> -1, message |-> "none", error |-> "none"]

\* the last command of the hour viewer, before any command
NoCommand ==
    [cmd |-> "none", hour |-> -1, is_weekend |-> FALSE, relevant |-> << >>,
     weekday_hours |-> {}, weekend_hours |-> {}, message |-> "none",
     saved |-> FALSE]

\* natural_language_summary.py lines 52-58
EmptySummaryData ==
    [sheets |-> << >>, study_types |-> {}, hospitals |-> {}, modalities |-> {},
     time_periods |-> [weekday |-> {}, weekend |-> {}]]

\* the report of the summary, before anything is printed
NoReport ==
    [coverage_status |-> "none", total_studies |-> -1, time_lines |-> << >>,
     validation |-> "none", checks |-> {}, insights |-> {}]

\* the variables of the other tools while the grid validator runs
ToolsIdle(t) ==
    /\ tool = t
    /\ all_coverage = << >>
    /\ repl = NoCommand
    /\ summary_data = EmptySummaryData
    /\ report = NoReport
    /\ shifts = << >>
    /\ coverage_matrix = << >>

Init ==
    /\ ToolsIdle("grid")
    /\ file \in Files
    /\ pc = "start"
    /\ coverage_data = << >>
    /\ parse_result = "none"
    /\ study_type_coverage = << >>
    /\ category_coverage = << >>
    /\ gaps = << >>
    /\ day_types = << >>
    /\ printed = NothingPrinted
    /\ exit_status = -1
    /\ history = << >>

\* a coverage_data that starts from what the last call left behind
EmptyCoverageData_Leftover == coverage_data

\* line 68: coverage_data = {}
EmptyCoverageData == << >>

\* lines 42-47, 52-56: the message of the except branch that catches the
\* failure, "none" when neither does
ReadError(kind) ==
    IF kind \in { "not_zip", "no_content" } THEN "Failed to read ODS file"
    ELSE IF kind = "malformed" THEN "Failed to parse XML"
    ELSE "none"

\* parse_ods.py lines 105-118: the shift-list tool reads the file the same
\* way, and exits with status 1 in the except branch
ParseOdsRead(kind) ==
    IF kind \in { "not_zip", "no_content" }
    THEN [error |-> "Failed to read ODS file", exit_status |-> 1]
    ELSE IF kind = "malformed"
    THEN [error |-> "Failed to parse XML", exit_status |-> 1]
    ELSE [error |-> "none", exit_status |-> -1]

\* lines 34-131: parse_coverage_grid(filepath), called at line 288
parse_coverage_grid ==
    /\ tool = "grid"
    /\ pc = "start"
    /\ IF ReadError(file.kind) # "none"
       THEN \* lines 42-47, 52-56: the exception is caught, None is returned
            /\ parse_result' = "None"
            /\ coverage_data' = << >>
            /\ day_types' = << >>
            /\ printed' = [printed EXCEPT !.error = ReadError(file.kind)]
            /\ pc' = "parsed"
            /\ exit_status' = exit_status
       ELSE IF file.kind \in { "no_body", "no_spreadsheet" }
       THEN \* lines 61-63: find() returned None, the next call raises
            /\ parse_result' = "AttributeError"
            /\ coverage_data' = << >>
            /\ day_types' = << >>
            /\ printed' = [printed EXCEPT !.error = "Traceback: AttributeError"]
            /\ pc' = "crashed"
            /\ exit_status' = 1
       ELSE /\ parse_result' = "dict"
            /\ coverage_data' = ParseTables(EmptyCoverageData, file.tables, 1)
            /\ day_types' = ComputedDayTypes(file.tables)
            /\ printed' = printed
            /\ pc' = "parsed"
            /\ exit_status' = exit_status
    /\ UNCHANGED << file, study_type_coverage, category_coverage, gaps, history >>
    /\ UNCHANGED toolVars

\* main() without the test of line 290
Truthy_Always(result, cd) == TRUE

\* line 290: if coverage_data (None and the empty dict are both false)
Truthy(result, cd) == result = "dict" /\ cd # << >>

\* lines 164-277: analyze_coverage(coverage_data), called at line 291
analyze_coverage ==
    /\ tool = "grid"
    /\ pc = "parsed"
    /\ Truthy(parse_result, coverage_data)
    /\ LET agg   == Aggregate([stc |-> << >>, cc |-> << >>], coverage_data, 1)
           found == FindGaps(<< >>, agg.stc, 1)
       IN  /\ study_type_coverage' = agg.stc
           /\ category_coverage' = agg.cc
           /\ gaps' = found
           /\ printed' = [verdict |-> Verdict(found), gap_count |-> Len(found),
                          message |-> "none", error |-> "none"]
           /\ history' = Append(history, [file |-> file, stc |-> agg.stc,
                                          cc |-> agg.cc, gaps |-> found])
    /\ pc' = "done"
    /\ exit_status' = 0
    /\ UNCHANGED << file, coverage_data, parse_result, day_types >>
    /\ UNCHANGED toolVars

\* lines 292-294: print("Failed to parse coverage data"); sys.exit(1)
main_failed ==
    /\ tool = "grid"
    /\ pc = "parsed"
    /\ ~ Truthy(parse_result, coverage_data)
    /\ printed' = [printed EXCEPT !.message = "Failed to parse coverage data"]
    /\ pc' = "failed"
    /\ exit_status' = 1
    /\ UNCHANGED << file, coverage_data, parse_result, study_type_coverage,
                    category_coverage, gaps, day_types, history >>
    /\ UNCHANGED toolVars

Next == parse_coverage_grid \/ analyze_coverage \/ main_failed

Spec == Init /\ [][Next]_vars

-----------------------------------------------------------------------------
(* Several runs of main(), the document edited between them *)

MaxRuns == 3        \* completed runs per behaviour

EditTables ==
    { Named(WeekdayName, << HeaderRow, << Cell(CT), Cell(X) >> >>),
      Named(WeekdayName, << HeaderRow, << Cell(CT), Cell(X) >>,
                                       << Cell(MR), Cell(X) >> >>),
      Named(WeekEndName, << HeaderRow, << Cell(MR), Cell(X) >> >>),
      Named(WeekEndName, << HeaderRow, << Cell(CT), EmptyCell >> >>),
      Unnamed(<< HeaderRow, << Cell(CT), Cell(X) >> >>) }

InitRuns ==
    /\ ToolsIdle("grid")
    /\ file \in { OkFile(ts) : ts \in { << >> } \cup { << t >> : t \in EditTables } }
    /\ pc = "start"
    /\ coverage_data = << >>
    /\ parse_result = "none"
    /\ study_type_coverage = << >>
    /\ category_coverage = << >>
    /\ gaps = << >>
    /\ day_types = << >>
    /\ printed = NothingPrinted
    /\ exit_status = -1
    /\ history = << >>

\* lines 280-288: main() is started again; what the last run left in memory
\* is whatever the functions do not initialise themselves
StartAgain(next_file) ==
    /\ pc = "done"
    /\ Len(history) < MaxRuns
    /\ file' = next_file
    /\ pc' = "start"
    /\ printed' = NothingPrinted
    /\ exit_status' = -1
    /\ UNCHANGED << coverage_data, parse_result, study_type_coverage,
                    category_coverage, gaps, day_types, history >>
    /\ UNCHANGED toolVars

\* the same document is validated again
run_again == StartAgain(file)

\* the document gets one more sheet and is validated again
run_with_added_sheet ==
    /\ Len(file.tables) < MaxSheets
    /\ \E t \in EditTables : StartAgain(OkFile(Append(file.tables, t)))

\* the document loses its last sheet and is validated again
run_with_sheet_removed ==
    /\ file.tables # << >>
    /\ StartAgain(OkFile(SubSeq(file.tables, 1, Len(file.tables) - 1)))

NextRuns ==
    \/ parse_coverage_grid \/ analyze_coverage \/ main_failed
    \/ run_again \/ run_with_added_sheet \/ run_with_sheet_removed

SpecRuns == InitRuns /\ [][NextRuns]_vars

-----------------------------------------------------------------------------
(* hour_viewer.py *)

NoHour == -1        \* stands for a start_hour or end_hour of None

\* hour_viewer.py lines 32-85: parse_time_from_sheet_name(sheet_name)
parse_time_from_sheet_name(sheet_name) ==
    LET name_lower == Lower(sheet_name)
        has(w)     == Contains(w, name_lower)
        is_weekend == has(WeekendWord)
        time ==
            IF has(<< "5" >>) /\ has(<< "6" >>) /\ has(<< "p","m" >>)
            THEN << "5-6 PM", 17, 18 >>
            ELSE IF has(<< "6" >>) /\ has(<< "1","2" >>) /\ has(<< "a","m" >>)
            THEN << "6 PM to Midnight", 18, 24 >>
            ELSE IF has(<< "5" >>) /\ has(<< "1","2" >>) /\ has(<< "a","m" >>)
            THEN << "5 PM to Midnight", 17, 24 >>
            ELSE IF has(<< "1","0" >>) /\ has(<< "m","i","d","n","i","g","h","t" >>)
            THEN << "10 PM to Midnight", 22, 24 >>
            ELSE IF has(<< "1","2","a","m" >>) /\ has(<< "1","a","m" >>)
            THEN << "Midnight to 1 AM", 0, 1 >>
            ELSE IF has(<< "1" >>) /\ has(<< "8" >>) /\ has(<< "a","m" >>)
            THEN << "1 AM to 8 AM", 1, 8 >>
            ELSE << "Unknown", NoHour, NoHour >>
    IN  [sheet_name |-> sheet_name,
         day_type   |-> IF is_weekend THEN "Weekend" ELSE "Weekday",
         time_range |-> time[1],
         start_hour |-> time[2],
         end_hour   |-> time[3],
         specialty  |-> IF has(<< "b","o","d","y" >>) THEN "Body"
                        ELSE IF has(<< "n","e","u","r","o" >>) THEN "Neuro"
                        ELSE "None",
         is_weekend |-> is_weekend]

\* hour_viewer.py lines 139-149: the entry appended to all_coverage
CoverageEntry(time_info, study_type, shift_position) ==
    [study_type     |-> study_type,
     shift_position |-> shift_position,
     day_type       |-> time_info.day_type,
     time_range     |-> time_info.time_range,
     start_hour     |-> time_info.start_hour,
     end_hour       |-> time_info.end_hour,
     specialty      |-> time_info.specialty,
     is_weekend     |-> time_info.is_weekend,
     sheet_name     |-> time_info.sheet_name]

\* hour_viewer.py lines 134-149: for i, cell in enumerate(cells[1:], 1)
RECURSIVE ViewerCells(_, _, _, _, _, _)
ViewerCells(all, time_info, study_type, shift_positions, cells, i) ==
    IF i >= Len(cells) THEN all
    ELSE LET cell_value == Lower(extract_text(cells[i + 1]))
             shift_position ==
                 IF i < Len(shift_positions) THEN shift_positions[i + 1]
                 ELSE << "C","o","l","u","m","n" >> \o Str(i)
         IN  ViewerCells(
                 IF cell_value \in CoverageMarkers
                 THEN Append(all, CoverageEntry(time_info, study_type, shift_position))
                 ELSE all,
                 time_info, study_type, shift_positions, cells, i + 1)

\* ViewerRow without the test of lines 130-131
ViewerRow_KeepBlank(all, time_info, shift_positions, cells) ==
    IF cells = << >> THEN all
    ELSE ViewerCells(all, time_info, extract_text(cells[1]), shift_positions, cells, 1)

\* hour_viewer.py lines 123-149: one data row
ViewerRow(all, time_info, shift_positions, cells) ==
    IF cells = << >> THEN all
    ELSE LET study_type == extract_text(cells[1])
         IN  IF study_type = << >> THEN all
             ELSE ViewerCells(all, time_info, study_type, shift_positions, cells, 1)

\* hour_viewer.py line 123: for row in rows[1:]
RECURSIVE ViewerRows(_, _, _, _, _)
ViewerRows(all, time_info, shift_positions, rows, r) ==
    IF r > Len(rows) THEN all
    ELSE ViewerRows(ViewerRow(all, time_info, shift_positions, rows[r]),
                    time_info, shift_positions, rows, r + 1)

\* hour_viewer.py lines 109-149: one table
ViewerTable(all, table) ==
    LET time_info == parse_time_from_sheet_name(SheetName(table))
    IN  IF table.rows = << >> THEN all
        ELSE LET header_cells    == table.rows[1]
                 shift_positions == [k \in DOMAIN header_cells |->
                                         extract_text(header_cells[k])]
             IN  ViewerRows(all, time_info, shift_positions, table.rows, 2)

\* hour_viewer.py lines 107-151: for table in tables
RECURSIVE ViewerTables(_, _, _)
ViewerTables(all, tables, t) ==
    IF t > Len(tables) THEN all
    ELSE ViewerTables(ViewerTable(all, tables[t]), tables, t + 1)

\* a selection that takes the end hour in
RelevantCoverage_EndInclusive(coverage, hour, is_weekend) ==
    SelectSeq(coverage,
              LAMBDA c : /\ c.start_hour # NoHour
                         /\ c.end_hour # NoHour
                         /\ c.start_hour <= hour /\ hour <= c.end_hour
                         /\ c.is_weekend = is_weekend)

\* hour_viewer.py lines 159-165: relevant_coverage
RelevantCoverage(coverage, hour, is_weekend) ==
    SelectSeq(coverage,
              LAMBDA c : /\ c.start_hour # NoHour
                         /\ c.end_hour # NoHour
                         /\ c.start_hour <= hour /\ hour < c.end_hour
                         /\ c.is_weekend = is_weekend)

\* hour_viewer.py lines 248-257: the hours collected for one day type
AvailableHours(coverage, is_weekend) ==
    UNION { IF /\ coverage[k].start_hour # NoHour
               /\ coverage[k].end_hour # NoHour
               /\ coverage[k].is_weekend = is_weekend
            THEN coverage[k].start_hour .. (coverage[k].end_hour - 1)
            ELSE {} : k \in DOMAIN coverage }

\* int(word) of line 306; IsNumber(word) is false where int raises ValueError
RECURSIVE DigitsValue(_, _)
DigitsValue(word, k) ==
    IF k = 0 THEN 0
    ELSE 10 * DigitsValue(word, k - 1)
         + (CHOOSE d \in 0 .. 9 : DigitChars[d + 1] = word[k])
IsDigits(word) ==
    word # << >> /\ \A k \in DOMAIN word : \E d \in 1 .. 10 : DigitChars[d] = word[k]
IsNumber(word) ==
    IsDigits(word) \/ (word # << >> /\ word[1] = "-" /\ IsDigits(Tail(word)))
int(word) ==
    IF IsDigits(word) THEN DigitsValue(word, Len(word))
    ELSE 0 - DigitsValue(Tail(word), Len(word) - 1)

\* the commands typed at the prompt, as cmd.split() sees them after
\* strip().lower()
LIST == << "l","i","s","t" >>
EXAMPLES == << "e","x","a","m","p","l","e","s" >>
QuitWords == { << "q","u","i","t" >>, << "e","x","i","t" >>, << "q" >> }
WEEKDAY == << "w","e","e","k","d","a","y" >>
HourWords ==
    { Str(h) : h \in 0 .. 24 }
    \cup { << "-","1" >>, << "0","7" >>, << "s","i","x" >> }
DayWords == { WEEKDAY, WeekendWord, << "s","u","n","d","a","y" >> }
Commands ==
    { << w >> : w \in QuitWords \cup { LIST, EXAMPLES, << "1","8" >> } }
    \cup { << h, d >> : h \in HourWords, d \in DayWords }
    \cup { << >>, << LIST, WEEKDAY >>, << << "1","8" >>, WEEKDAY, WEEKDAY >> }

\* what the answer to "Your summary:" can be
Summaries == { << >>, << "o","k" >> }

IsQuery(cmd) ==
    /\ Len(cmd) = 2
    /\ IsNumber(cmd[1])
    /\ int(cmd[1]) >= 0 /\ int(cmd[1]) <= 23
    /\ cmd[2] \in { WEEKDAY, WeekendWord }

\* hour_viewer.py line 359: if not coverage_data
ViewerTruthy(result, coverage) == result = "list" /\ coverage # << >>

\* hour_viewer.py lines 88-151: parse_ods_coverage(filepath), called at line 357
parse_ods_coverage ==
    /\ tool = "viewer"
    /\ pc = "start"
    /\ IF ReadError(file.kind) # "none"
       THEN /\ parse_result' = "None"
            /\ all_coverage' = << >>
            /\ printed' = [printed EXCEPT !.error = ReadError(file.kind)]
            /\ pc' = "loaded"
            /\ exit_status' = exit_status
       ELSE IF file.kind \in { "no_body", "no_spreadsheet" }
       THEN /\ parse_result' = "AttributeError"
            /\ all_coverage' = << >>
            /\ printed' = [printed EXCEPT !.error = "Traceback: AttributeError"]
            /\ pc' = "crashed"
            /\ exit_status' = 1
       ELSE /\ parse_result' = "list"
            /\ all_coverage' = ViewerTables(<< >>, file.tables, 1)
            /\ printed' = printed
            /\ pc' = "loaded"
            /\ exit_status' = exit_status
    /\ UNCHANGED << file, coverage_data, study_type_coverage, category_coverage,
                    gaps, day_types, history, tool, repl, summary_data, report,
                    shifts, coverage_matrix >>

\* hour_viewer.py lines 359-361: print("Failed to load coverage data"); return
viewer_failed ==
    /\ tool = "viewer"
    /\ pc = "loaded"
    /\ ~ ViewerTruthy(parse_result, all_coverage)
    /\ printed' = [printed EXCEPT !.message = "Failed to load coverage data"]
    /\ pc' = "failed"
    /\ exit_status' = 0
    /\ UNCHANGED << file, coverage_data, parse_result, study_type_coverage,
                    category_coverage, gaps, day_types, history >>
    /\ UNCHANGED toolVars

\* hour_viewer.py lines 363-366, 270-282: interactive_viewer(coverage_data)
interactive_viewer ==
    /\ tool = "viewer"
    /\ pc = "loaded"
    /\ ViewerTruthy(parse_result, all_coverage)
    /\ pc' = "repl"
    /\ UNCHANGED << file, coverage_data, parse_result, study_type_coverage,
                    category_coverage, gaps, day_types, printed, exit_status,
                    history >>
    /\ UNCHANGED toolVars

\* the variables a command of the viewer leaves alone, but for all_coverage
ReplFrame ==
    UNCHANGED << file, coverage_data, parse_result, study_type_coverage,
                 category_coverage, gaps, day_types, printed, exit_status,
                 history, tool, summary_data, report, shifts, coverage_matrix >>

\* a query that removes what it showed from the list
show_coverage_at_hour_Consuming ==
    /\ tool = "viewer"
    /\ pc = "repl"
    /\ \E cmd \in Commands, summary \in Summaries :
          /\ IsQuery(cmd)
          /\ LET hour       == int(cmd[1])
                 is_weekend == (cmd[2] = WeekendWord)
                 relevant   == RelevantCoverage(all_coverage, hour, is_weekend)
             IN  /\ repl' = [NoCommand EXCEPT
                               !.cmd = "hour", !.hour = hour,
                               !.is_weekend = is_weekend, !.relevant = relevant,
                               !.message = IF relevant = << >>
                                           THEN "No coverage data found"
                                           ELSE "COVERAGE AT",
                               !.saved = (summary # << >>)]
                 /\ all_coverage' =
                        SelectSeq(all_coverage,
                                  LAMBDA c : \A k \in DOMAIN relevant : relevant[k] # c)
    /\ pc' = "repl"
    /\ ReplFrame

\* hour_viewer.py lines 302-336, 154-225: "<hour> weekday|weekend", which
\* calls show_coverage_at_hour and asks for a summary to save
show_coverage_at_hour ==
    /\ tool = "viewer"
    /\ pc = "repl"
    /\ \E cmd \in Commands, summary \in Summaries :
          /\ IsQuery(cmd)
          /\ LET hour       == int(cmd[1])
                 is_weekend == (cmd[2] = WeekendWord)
                 relevant   == RelevantCoverage(all_coverage, hour, is_weekend)
             IN  repl' = [NoCommand EXCEPT
                            !.cmd = "hour", !.hour = hour,
                            !.is_weekend = is_weekend, !.relevant = relevant,
                            !.message = IF relevant = << >>
                                        THEN "No coverage data found"
                                        ELSE "COVERAGE AT",
                            !.saved = (summary # << >>)]
    /\ pc' = "repl"
    /\ all_coverage' = all_coverage
    /\ ReplFrame

\* hour_viewer.py lines 291-292, 240-267: "list"
list_available_hours ==
    /\ tool = "viewer"
    /\ pc = "repl"
    /\ repl' = [NoCommand EXCEPT
                  !.cmd = "list",
                  !.weekday_hours = AvailableHours(all_coverage, FALSE),
                  !.weekend_hours = AvailableHours(all_coverage, TRUE),
                  !.message = "AVAILABLE COVERAGE HOURS"]
    /\ pc' = "repl"
    /\ all_coverage' = all_coverage
    /\ ReplFrame

\* hour_viewer.py lines 294-300: "examples"
show_examples ==
    /\ tool = "viewer"
    /\ pc = "repl"
    /\ repl' = [NoCommand EXCEPT !.cmd = "examples", !.message = "Example queries"]
    /\ pc' = "repl"
    /\ all_coverage' = all_coverage
    /\ ReplFrame

\* hour_viewer.py lines 302-341: a command that is refused
invalid_command ==
    /\ tool = "viewer"
    /\ pc = "repl"
    /\ \E cmd \in Commands :
          /\ cmd \notin { << q >> : q \in QuitWords } \cup { << LIST >>, << EXAMPLES >> }
          /\ ~ IsQuery(cmd)
          /\ repl' = [NoCommand EXCEPT
                        !.cmd = "invalid",
                        !.message =
                            IF Len(cmd) # 2 THEN "Invalid command"
                            ELSE IF ~ IsNumber(cmd[1]) THEN "Invalid hour"
                            ELSE IF int(cmd[1]) < 0 \/ int(cmd[1]) > 23
                            THEN "Hour must be between 0-23"
                            ELSE "Day type must be 'weekday' or 'weekend'"]
    /\ pc' = "repl"
    /\ all_coverage' = all_coverage
    /\ ReplFrame

\* hour_viewer.py lines 288-289, 343-347: quit, exit, q, or the end of input
quit ==
    /\ tool = "viewer"
    /\ pc = "repl"
    /\ pc' = "done"
    /\ exit_status' = 0
    /\ UNCHANGED << file, coverage_data, parse_result, study_type_coverage,
                    category_coverage, gaps, day_types, printed, history >>
    /\ UNCHANGED toolVars

-----------------------------------------------------------------------------
(* natural_language_summary.py *)

UpperChar(c) ==
    IF \E i \in DOMAIN LowerChars : LowerChars[i] = c
    THEN UpperChars[CHOOSE i \in DOMAIN LowerChars : LowerChars[i] = c]
    ELSE c
Upper(s) == [k \in DOMAIN s |-> UpperChar(s[k])]

\* the characters of the sheet names in code-point order, for sorted()
CodePoints == << " ", "-" >> \o DigitChars \o UpperChars \o LowerChars
Ord(c) == CHOOSE i \in DOMAIN CodePoints : CodePoints[i] = c
RECURSIVE StrLess(_, _)
StrLess(s, t) ==
    IF t = << >> THEN FALSE
    ELSE IF s = << >> THEN TRUE
    ELSE IF s[1] = t[1] THEN StrLess(Tail(s), Tail(t))
    ELSE Ord(s[1]) < Ord(t[1])
RECURSIVE sorted(_)
sorted(S) ==
    IF S = {} THEN << >>
    ELSE LET least == CHOOSE x \in S : \A y \in S \ { x } : StrLess(x, y)
         IN  << least >> \o sorted(S \ { least })

\* natural_language_summary.py lines 90-94: the first hospital in the label
Hospitals ==
    << << "C","P","M","C" >>, << "A","l","l","e","n" >>,
       << "N","Y","P","L","H" >>, << "C","H","O","N","Y" >> >>
HospitalsOf(study_type) ==
    LET found == SelectSeq(Hospitals, LAMBDA h : Contains(h, study_type))
    IN  IF found = << >> THEN {} ELSE { found[1] }

\* natural_language_summary.py lines 96-107: the first modality in the
\* upper-cased label, under the name it is stored with
Modalities ==
    << << << "C","T" >>, "CT" >>, << << "M","R" >>, "MRI" >>,
       << << "M","R","I" >>, "MRI" >>, << << "U","S" >>, "Ultrasound" >>,
       << << "D","X" >>, "X-Ray" >>, << << "N","M" >>, "NM" >>,
       << << "P","E","T" >>, "PET" >> >>
ModalitiesOf(study_type) ==
    LET found == SelectSeq(Modalities, LAMBDA m : Contains(m[1], Upper(study_type)))
    IN  IF found = << >> THEN {} ELSE { found[1][2] }

\* natural_language_summary.py lines 110-121: for i, cell in enumerate(cells[1:], 1)
RECURSIVE SummaryCells(_, _, _, _, _, _, _)
SummaryCells(sheets, sheet_name, day_type, study_type, shift_positions, cells, i) ==
    IF i >= Len(cells) THEN sheets
    ELSE LET cell_value == Lower(extract_text(cells[i + 1]))
             shift_position ==
                 IF i < Len(shift_positions) THEN shift_positions[i + 1]
                 ELSE << "C","o","l","u","m","n" >> \o Str(i)
             entry ==
                 IF Has(sheets, sheet_name) THEN Get(sheets, sheet_name)
                 ELSE [day_type |-> day_type, studies |-> {}, positions |-> {}]
         IN  SummaryCells(
                 IF cell_value \in CoverageMarkers
                 THEN Put(sheets, sheet_name,
                          [entry EXCEPT !.studies = @ \cup { study_type },
                                        !.positions = @ \cup { shift_position }])
                 ELSE sheets,
                 sheet_name, day_type, study_type, shift_positions, cells, i + 1)

\* natural_language_summary.py lines 79-121: one data row
SummaryRow(data, sheet_name, day_type, shift_positions, cells) ==
    IF cells = << >> THEN data
    ELSE LET study_type == extract_text(cells[1])
         IN  IF study_type = << >> THEN data
             ELSE [data EXCEPT
                     !.study_types = @ \cup { study_type },
                     !.hospitals = @ \cup HospitalsOf(study_type),
                     !.modalities = @ \cup ModalitiesOf(study_type),
                     !.sheets = SummaryCells(@, sheet_name, day_type, study_type,
                                             shift_positions, cells, 1)]

\* natural_language_summary.py line 79: for row in rows[1:]
RECURSIVE SummaryRows(_, _, _, _, _, _)
SummaryRows(data, sheet_name, day_type, shift_positions, rows, r) ==
    IF r > Len(rows) THEN data
    ELSE SummaryRows(SummaryRow(data, sheet_name, day_type, shift_positions, rows[r]),
                     sheet_name, day_type, shift_positions, rows, r + 1)

\* natural_language_summary.py lines 60-121: one table
SummaryTable(data, table) ==
    LET sheet_name == SheetName(table)
        is_weekend == Contains(WeekendWord, Lower(sheet_name))
        day_type   == IF is_weekend THEN "Weekend" ELSE "Weekday"
    IN  IF table.rows = << >> THEN data
        ELSE LET timed ==
                     IF is_weekend
                     THEN [data EXCEPT !.time_periods.weekend = @ \cup { sheet_name }]
                     ELSE [data EXCEPT !.time_periods.weekday = @ \cup { sheet_name }]
                 header_cells    == table.rows[1]
                 shift_positions == [k \in DOMAIN header_cells |->
                                         extract_text(header_cells[k])]
             IN  SummaryRows(timed, sheet_name, day_type, shift_positions,
                             table.rows, 2)

\* natural_language_summary.py lines 52-123: for table in tables
RECURSIVE SummaryTables(_, _, _)
SummaryTables(data, tables, t) ==
    IF t > Len(tables) THEN data
    ELSE SummaryTables(SummaryTable(data, tables[t]), tables, t + 1)

\* natural_language_summary.py lines 126-143: extract_time_range(sheet_name)
extract_time_range(sheet_name) ==
    LET name_lower == Lower(sheet_name)
        has(w)     == Contains(w, name_lower)
    IN  IF has(<< "5" >>) /\ has(<< "6" >>) /\ has(<< "p","m" >>)
        THEN "5-6 PM"
        ELSE IF has(<< "6" >>) /\ has(<< "1","2" >>) /\ has(<< "a","m" >>)
        THEN "6 PM to Midnight"
        ELSE IF has(<< "5" >>) /\ has(<< "1","2" >>) /\ has(<< "a","m" >>)
        THEN "5 PM to Midnight"
        ELSE IF has(<< "1","0" >>) /\ has(<< "m","i","d","n","i","g","h","t" >>)
        THEN "10 PM to Midnight"
        ELSE IF has(<< "1","2","a","m" >>) /\ has(<< "1","a","m" >>)
        THEN "Midnight to 1 AM"
        ELSE IF has(<< "1" >>) /\ has(<< "8" >>) /\ has(<< "a","m" >>)
        THEN "1 AM to 8 AM (overnight)"
        ELSE "extended hours"

\* natural_language_summary.py lines 260-264, 269-273: the lines of one day type
TimeLines(data, day, names) ==
    LET ordered == sorted(names)
    IN  [k \in DOMAIN ordered |->
            [day           |-> day,
             sheet_name    |-> ordered[k],
             time_range    |-> extract_time_range(ordered[k]),
             studies_count |-> IF Has(data.sheets, ordered[k])
                               THEN Cardinality(Get(data.sheets, ordered[k]).studies)
                               ELSE 0]]

\* natural_language_summary.py lines 376-385: the checks listed as passed
ValidationChecks ==
    { "Every study type has weekday coverage",
      "Every study type has weekend coverage",
      "No time gaps detected",
      "All modalities covered across all time periods",
      "All hospital locations have adequate coverage",
      "Specialty assignments are appropriate" }

\* natural_language_summary.py lines 33-123: parse_coverage_grid(filepath),
\* called at line 478
summary_parse_coverage_grid ==
    /\ tool = "summary"
    /\ pc = "start"
    /\ IF ReadError(file.kind) # "none"
       THEN /\ parse_result' = "None"
            /\ summary_data' = summary_data
            /\ printed' = [printed EXCEPT !.error = ReadError(file.kind)]
            /\ pc' = "parsed"
            /\ exit_status' = exit_status
       ELSE IF file.kind \in { "no_body", "no_spreadsheet" }
       THEN /\ parse_result' = "AttributeError"
            /\ summary_data' = summary_data
            /\ printed' = [printed EXCEPT !.error = "Traceback: AttributeError"]
            /\ pc' = "crashed"
            /\ exit_status' = 1
       ELSE /\ parse_result' = "dict"
            /\ summary_data' = SummaryTables(EmptySummaryData, file.tables, 1)
            /\ printed' = printed
            /\ pc' = "parsed"
            /\ exit_status' = exit_status
    /\ UNCHANGED << file, coverage_data, study_type_coverage, category_coverage,
                    gaps, day_types, history, tool, all_coverage, repl, report,
                    shifts, coverage_matrix >>

\* natural_language_summary.py lines 480-482: a result of None
summary_failed ==
    /\ tool = "summary"
    /\ pc = "parsed"
    /\ parse_result # "dict"
    /\ printed' = [printed EXCEPT !.message = "Failed to parse coverage data"]
    /\ pc' = "failed"
    /\ exit_status' = 1
    /\ UNCHANGED << file, coverage_data, parse_result, study_type_coverage,
                    category_coverage, gaps, day_types, history >>
    /\ UNCHANGED toolVars

\* natural_language_summary.py line 376: the status line, whatever the dict
ValidationStatus(data) == "PASSED"

\* natural_language_summary.py lines 484-492: the summaries are printed
generate_summaries ==
    /\ tool = "summary"
    /\ pc = "parsed"
    /\ parse_result = "dict"
    /\ report' =
          [coverage_status |-> "FULLY OPERATIONAL",
           total_studies   |-> Cardinality(summary_data.study_types),
           time_lines      |-> TimeLines(summary_data, "weekday",
                                         summary_data.time_periods.weekday)
                               \o TimeLines(summary_data, "weekend",
                                            summary_data.time_periods.weekend),
           validation      |-> ValidationStatus(summary_data),
           checks          |-> ValidationChecks,
           insights        |-> { "Zero coverage gaps identified" }]
    /\ pc' = "done"
    /\ exit_status' = 0
    /\ UNCHANGED << file, coverage_data, parse_result, study_type_coverage,
                    category_coverage, gaps, day_types, printed, history, tool,
                    all_coverage, repl, summary_data, shifts, coverage_matrix >>

-----------------------------------------------------------------------------
(* parse_ods.py *)

\* str.split(sep) for a one-character separator
RECURSIVE Split(_, _)
Split(s, sep) ==
    IF \A k \in DOMAIN s : s[k] # sep THEN << s >>
    ELSE LET at == CHOOSE k \in DOMAIN s : s[k] = sep /\ \A j \in 1 .. (k - 1) : s[j] # sep
         IN  << SubSeq(s, 1, at - 1) >> \o Split(SubSeq(s, at + 1, Len(s)), sep)

\* the directives of strptime as _strptime matches them:
\* %Y is \d\d\d\d, %m is 1[0-2]|0[1-9]|[1-9], %d is 3[01]|[12]\d|0[1-9]|[1-9]
MatchesY(w) == Len(w) = 4 /\ IsDigits(w)
MatchesM(w) == IsDigits(w) /\ Len(w) <= 2 /\ int(w) >= 1 /\ int(w) <= 12
MatchesD(w) == IsDigits(w) /\ Len(w) <= 2 /\ int(w) >= 1 /\ int(w) <= 31

IsLeap(y) == (y % 4 = 0 /\ y % 100 # 0) \/ y % 400 = 0
DaysInMonth(y, m) ==
    IF m = 2 THEN (IF IsLeap(y) THEN 29 ELSE 28)
    ELSE IF m \in { 4, 6, 9, 11 } THEN 30 ELSE 31
RECURSIVE DaysBeforeMonth(_, _)
DaysBeforeMonth(y, m) ==
    IF m = 1 THEN 0 ELSE DaysBeforeMonth(y, m - 1) + DaysInMonth(y, m - 1)

\* datetime.toordinal(): days since 0001-01-01, that day being 1
ToOrdinal(y, m, d) ==
    (y - 1) * 365 + ((y - 1) \div 4) - ((y - 1) \div 100) + ((y - 1) \div 400)
    + DaysBeforeMonth(y, m) + d

\* datetime.weekday(): Monday is 0, Sunday is 6
weekday(y, m, d) == (ToOrdinal(y, m, d) + 6) % 7

Formats == << "%Y-%m-%d", "%m/%d/%Y", "%d/%m/%Y" >>

\* datetime.strptime(date, fmt): [ok |-> FALSE] where it raises ValueError
strptime(date, fmt) ==
    LET sep   == IF fmt = "%Y-%m-%d" THEN "-" ELSE "/"
        parts == Split(date, sep)
        yw    == IF fmt = "%Y-%m-%d" THEN parts[1] ELSE parts[3]
        mw    == IF fmt = "%d/%m/%Y" THEN parts[2]
                 ELSE IF fmt = "%m/%d/%Y" THEN parts[1] ELSE parts[2]
        dw    == IF fmt = "%d/%m/%Y" THEN parts[1]
                 ELSE IF fmt = "%m/%d/%Y" THEN parts[2] ELSE parts[3]
    IN  IF /\ Len(parts) = 3
           /\ MatchesY(yw) /\ MatchesM(mw) /\ MatchesD(dw)
           /\ int(yw) >= 1
           /\ int(dw) <= DaysInMonth(int(yw), int(mw))
        THEN [ok |-> TRUE, year |-> int(yw), month |-> int(mw), day |-> int(dw)]
        ELSE [ok |-> FALSE, year |-> 0, month |-> 0, day |-> 0]

\* parse_ods.py lines 53-58: the first format that parses decides
RECURSIVE WeekendByDate(_, _)
WeekendByDate(date, f) ==
    IF f > Len(Formats) THEN "None"
    ELSE LET dt == strptime(date, Formats[f])
         IN  IF dt.ok
             THEN (IF weekday(dt.year, dt.month, dt.day) >= 5 THEN "True" ELSE "False")
             ELSE WeekendByDate(date, f + 1)

\* _is_weekend that looks at the date before the sheet name
is_weekend_DateFirst(sheet_name, date) ==
    IF date # << >> /\ WeekendByDate(date, 1) # "None" THEN WeekendByDate(date, 1)
    ELSE IF Contains(WeekendWord, Lower(sheet_name)) THEN "True"
    ELSE IF Contains(<< "w","e","e","k","d","a","y" >>, Lower(sheet_name)) THEN "False"
    ELSE "None"

\* parse_ods.py lines 41-62: Shift._is_weekend, "True", "False" or "None"
is_weekend(sheet_name, date) ==
    LET sheet_lower == Lower(sheet_name)
    IN  IF Contains(WeekendWord, sheet_lower) THEN "True"
        ELSE IF Contains(<< "w","e","e","k","d","a","y" >>, sheet_lower) THEN "False"
        ELSE IF date # << >> THEN WeekendByDate(date, 1)
        ELSE "None"

\* parse_ods.py lines 64-75: Shift._extract_study_type_from_sheet
extract_study_type_from_sheet(sheet_name) ==
    LET sheet_lower == Lower(sheet_name)
    IN  IF Contains(<< "b","o","d","y" >>, sheet_lower) THEN << "B","o","d","y" >>
        ELSE IF Contains(<< "n","e","u","r","o" >>, sheet_lower)
        THEN << "N","e","u","r","o" >>
        ELSE << "G","e","n","e","r","a","l" >>

\* get_day_type that takes an unknown day for a weekday
get_day_type_UnknownAsWeekday(weekend) ==
    IF weekend = "True" THEN "Weekend" ELSE "Weekday"

\* parse_ods.py lines 77-81: Shift.get_day_type
get_day_type(weekend) ==
    IF weekend = "None" THEN "Unknown"
    ELSE IF weekend = "True" THEN "Weekend" ELSE "Weekday"

DATE == << "d","a","t","e" >>
STUDY_TYPE == << "s","t","u","d","y","_","t","y","p","e" >>
STAFF_MEMBER == << "s","t","a","f","f","_","m","e","m","b","e","r" >>

\* dict.get(key, '')
GetOrEmpty(d, key) == IF Has(d, key) THEN Get(d, key) ELSE << >>

\* parse_ods.py lines 22-39: Shift(sheet_name, row_data), the fields that
\* the analysis reads
Shift(sheet_name, row_data) ==
    LET date == GetOrEmpty(row_data, DATE)
        study_type == GetOrEmpty(row_data, STUDY_TYPE)
    IN  [sheet_name   |-> sheet_name,
         date         |-> date,
         staff_member |-> GetOrEmpty(row_data, STAFF_MEMBER),
         is_weekend   |-> is_weekend(sheet_name, date),
         study_type   |-> IF study_type = << >>
                          THEN extract_study_type_from_sheet(sheet_name)
                          ELSE study_type]

\* parse_ods.py lines 156-160: row_data of one row
RECURSIVE RowData(_, _, _, _)
RowData(row_data, headers, cells, k) ==
    IF k > Len(cells) THEN row_data
    ELSE RowData(IF k <= Len(headers) /\ headers[k] # << >>
                 THEN Put(row_data, headers[k], extract_text(cells[k]))
                 ELSE row_data,
                 headers, cells, k + 1)

\* parse_ods.py lines 152-170: for row in rows[1:]
RECURSIVE ShiftRows(_, _, _, _, _)
ShiftRows(all_shifts, sheet_name, headers, rows, r) ==
    IF r > Len(rows) THEN all_shifts
    ELSE LET row_data == RowData(<< >>, headers, rows[r], 1)
             shift    == Shift(sheet_name, row_data)
         IN  ShiftRows(
                 IF \A k \in DOMAIN row_data : row_data[k][2] = << >>
                 THEN all_shifts
                 ELSE IF shift.date # << >> \/ shift.staff_member # << >>
                 THEN Append(all_shifts, shift)
                 ELSE all_shifts,
                 sheet_name, headers, rows, r + 1)

\* parse_ods.py lines 132-172: one table
ShiftTable(all_shifts, table) ==
    IF table.rows = << >> THEN all_shifts
    ELSE LET header_cells == table.rows[1]
             headers == [k \in DOMAIN header_cells |->
                            Strip(Lower(extract_text(header_cells[k])))]
         IN  ShiftRows(all_shifts, SheetName(table), headers, table.rows, 2)

\* parse_ods.py lines 130-175: for table in tables
RECURSIVE ShiftTables(_, _, _)
ShiftTables(all_shifts, tables, t) ==
    IF t > Len(tables) THEN all_shifts
    ELSE ShiftTables(ShiftTable(all_shifts, tables[t]), tables, t + 1)

\* parse_ods.py line 198: the default of coverage_matrix
NoShifts == [Weekday |-> 0, Weekend |-> 0, Unknown |-> 0]

\* parse_ods.py lines 200-203: for shift in shifts
RECURSIVE CountShifts(_, _, _)
CountShifts(matrix, all_shifts, k) ==
    IF k > Len(all_shifts) THEN matrix
    ELSE LET study_type == IF all_shifts[k].study_type = << >>
                           THEN << "U","n","s","p","e","c","i","f","i","e","d" >>
                           ELSE all_shifts[k].study_type
             day_type   == get_day_type(all_shifts[k].is_weekend)
             counts     == IF Has(matrix, study_type) THEN Get(matrix, study_type)
                           ELSE NoShifts
         IN  CountShifts(Put(matrix, study_type,
                             [counts EXCEPT ![day_type] = @ + 1]),
                         all_shifts, k + 1)

\* parse_ods.py lines 234-239: for study_type, counts in coverage_matrix.items()
RECURSIVE ShiftGaps(_, _, _)
ShiftGaps(found, matrix, k) ==
    IF k > Len(matrix) THEN found
    ELSE ShiftGaps(
             found
             \o (IF matrix[k][2].Weekday = 0
                 THEN << matrix[k][1] \o MissingWeekday >> ELSE << >>)
             \o (IF matrix[k][2].Weekend = 0
                 THEN << matrix[k][1] \o MissingWeekend >> ELSE << >>),
             matrix, k + 1)

\* parse_ods.py lines 255-261: the verdict line of the validation summary
ShiftVerdict(gap_list) == IF Len(gap_list) = 0 THEN "PASSED" ELSE "FAILED"

\* parse_ods.py lines 97-175: parse_ods(filepath), called at line 271
parse_ods ==
    /\ tool = "shifts"
    /\ pc = "start"
    /\ IF ParseOdsRead(file.kind).error # "none"
       THEN \* lines 108-110, 117-119: sys.exit(1)
            /\ parse_result' = "SystemExit"
            /\ shifts' = << >>
            /\ printed' = [printed EXCEPT !.error = ParseOdsRead(file.kind).error]
            /\ pc' = "failed"
            /\ exit_status' = ParseOdsRead(file.kind).exit_status
       ELSE IF file.kind \in { "no_body", "no_spreadsheet" }
       THEN /\ parse_result' = "AttributeError"
            /\ shifts' = << >>
            /\ printed' = [printed EXCEPT !.error = "Traceback: AttributeError"]
            /\ pc' = "crashed"
            /\ exit_status' = 1
       ELSE /\ parse_result' = "list"
            /\ shifts' = ShiftTables(<< >>, file.tables, 1)
            /\ printed' = printed
            /\ pc' = "parsed"
            /\ exit_status' = exit_status
    /\ UNCHANGED << file, coverage_data, study_type_coverage, category_coverage,
                    gaps, day_types, history, tool, all_coverage, repl,
                    summary_data, report, coverage_matrix >>

\* parse_ods.py lines 178-262: analyze_coverage(shifts), called at line 272
shift_analyze_coverage ==
    /\ tool = "shifts"
    /\ pc = "parsed"
    /\ LET matrix == CountShifts(<< >>, shifts, 1)
           found  == ShiftGaps(<< >>, matrix, 1)
       IN  /\ coverage_matrix' = matrix
           /\ gaps' = found
           /\ printed' = [verdict |-> ShiftVerdict(found), gap_count |-> Len(found),
                          message |-> "none", error |-> "none"]
    /\ pc' = "done"
    /\ exit_status' = 0
    /\ UNCHANGED << file, coverage_data, parse_result, study_type_coverage,
                    category_coverage, day_types, history, tool, all_coverage,
                    repl, summary_data, report, shifts >>

-----------------------------------------------------------------------------
(* The four tools, each run once on a document *)

MaxTimeParts == 2   \* tokens per generated time-period sheet name

\* one-sheet documents whose sheet name is generated from time words
TimeTokens ==
    { << "5","-","6"," " >>, << "P","M" >>, << "6","p","m","-","1","2" >>,
      << "a","m" >>, << "5","p","m","-","1","2" >>, << "1","0","p","m","-" >>,
      << "M","i","d","n","i","g","h","t" >>, << "1","2","a","m","-" >>,
      << "1","a","m" >>, << "1","-","8" >>, << "8","A","M" >>,
      << "W","e","e","k","e","n","d"," " >> }
TimeNames == { Concat(parts) : parts \in SeqsUpTo(TimeTokens, MaxTimeParts) }
TimeFiles ==
    { OkFile(<< Named(n, << HeaderRow, CoveredCT >>) >>) : n \in TimeNames }

\* documents whose sheets are named after the time periods of a schedule
PeriodNames ==
    { << "W","e","e","k","d","a","y"," ","5","-","6"," ","P","M" >>,
      << "W","e","e","k","e","n","d"," ","6","p","m","-","1","2","a","m" >>,
      << "W","e","e","k","d","a","y"," ","5","p","m","-","1","2","a","m" >>,
      << "W","e","e","k","e","n","d"," ","1","0","p","m","-","M","i","d","n","i","g","h","t" >>,
      << "W","e","e","k","d","a","y"," ","1","2","a","m","-","1","a","m" >>,
      << "W","e","e","k","e","n","d"," ","1","a","m","-","8","a","m"," ","B","o","d","y" >>,
      WeekdayName, WeekEndName }
PairNames ==
    { << "W","e","e","k","d","a","y"," ","5","-","6"," ","P","M" >>,
      << "W","e","e","k","e","n","d"," ","6","p","m","-","1","2","a","m" >>,
      << "W","e","e","k","d","a","y"," ","1","2","a","m","-","1","a","m" >>,
      WeekEndName }
PeriodFiles ==
    { OkFile(<< Named(n, rows) >>) :
        n \in PeriodNames,
        rows \in { << HeaderRow, CoveredCT >>, << HeaderRow, CoveredCT, CoveredMR >>,
                   << HeaderRow, ListedCT >> } }
    \cup { OkFile(<< Named(n, << HeaderRow, CoveredCT >>),
                     Named(m, << HeaderRow, r >>) >>) :
             n \in PairNames, m \in PairNames, r \in { CoveredCT, CoveredMR } }
    \cup { OkFile(<< >>), OkFile(<< Unnamed(<< HeaderRow, CoveredCT >>) >>) }

\* shift lists: a header row and rows of date, study type, staff member
ShiftHeader ==
    << Cell(<< "D","a","t","e" >>),
       Cell(<< "S","t","u","d","y","_","T","y","p","e"," " >>),
       Cell(<< "S","t","a","f","f","_","M","e","m","b","e","r" >>) >>
ShiftRow(date, study_type, staff_member) ==
    << Cell(date), Cell(study_type), Cell(staff_member) >>
Staff == << "D","r" >>

ShiftSheetNames ==
    { << "W","e","e","k","e","n","d"," ","B","o","d","y" >>,
      << "w","e","e","k","D","A","Y"," ","n","e","u","r","o" >>,
      << "W","e","e","k","d","a","y"," ","W","E","E","K","E","N","D" >>,
      << "S","h","e","e","t","1" >> }

\* dates written as three fields and a separator
DateFields ==
    { << "2","0","2","4" >>, << "2","0","2","3" >>, << "0","1" >>, << "7" >>,
      << "1","3" >>, << "3","0" >>, << "0","2" >> }
Dates ==
    { a \o << s >> \o b \o << s >> \o c :
        a \in DateFields, b \in DateFields, c \in DateFields, s \in { "-", "/" } }
    \cup { << >>, << "s","o","o","n" >>,
           << "2","0","2","4","-","0","1","/","1","3" >>,
           << "0","0","0","0","-","0","1","-","1","3" >> }
DateFiles ==
    { OkFile(<< Named(n, << ShiftHeader, ShiftRow(d, CT, Staff) >>) >>) :
        n \in ShiftSheetNames, d \in Dates }

Saturday == << "2","0","2","4","-","0","1","-","1","3" >>
Monday == << "0","7","/","0","1","/","2","0","2","4" >>
ListRows ==
    { ShiftRow(d, t, m) :
        d \in { Saturday, Monday, << >>, << "s","o","o","n" >> },
        t \in { CT, MR, << >> },
        m \in { Staff, << >> } }
ShiftListFiles ==
    { OkFile(<< Named(n, << ShiftHeader, r >>) >>) :
        n \in ShiftSheetNames, r \in ListRows }
    \cup { OkFile(<< Named(n, << ShiftHeader, r, q >>) >>) :
             n \in ShiftSheetNames, r \in ListRows, q \in ListRows }
    \cup { OkFile(<< Named(n, << ShiftHeader, ShiftRow(<< >>, CT, Staff) >>),
                     Named(m, << ShiftHeader, ShiftRow(<< >>, t, Staff) >>) >>) :
             n \in ShiftSheetNames, m \in ShiftSheetNames, t \in { CT, MR } }
    \cup { OkFile(<< >>), OkFile(<< Named(WeekdayName, << >>) >>) }

Tools == { "grid", "viewer", "summary", "shifts" }

\* the documents each tool is run on
FilesOf(t) ==
    IF t = "grid" THEN PeriodFiles \cup ScenarioFiles
    ELSE IF t = "viewer" THEN PeriodFiles \cup BrokenFiles
    ELSE IF t = "summary" THEN TimeFiles \cup PeriodFiles \cup ScenarioFiles
                               \cup BrokenFiles
    ELSE DateFiles \cup ShiftListFiles \cup BrokenFiles

InitTools ==
    /\ \E t \in Tools : ToolsIdle(t) /\ file \in FilesOf(t)
    /\ pc = "start"
    /\ coverage_data = << >>
    /\ parse_result = "none"
    /\ study_type_coverage = << >>
    /\ category_coverage = << >>
    /\ gaps = << >>
    /\ day_types = << >>
    /\ printed = NothingPrinted
    /\ exit_status = -1
    /\ history = << >>

NextTools ==
    \/ parse_coverage_grid \/ analyze_coverage \/ main_failed
    \/ parse_ods_coverage \/ viewer_failed \/ interactive_viewer
    \/ show_coverage_at_hour \/ list_available_hours \/ show_examples
    \/ invalid_command \/ quit
    \/ summary_parse_coverage_grid \/ summary_failed \/ generate_summaries
    \/ parse_ods \/ shift_analyze_coverage

SpecTools == InitTools /\ [][NextTools]_vars

-----------------------------------------------------------------------------
(* What the document says, read off the tables without the parser *)

DayTypes == { "Weekday", "Weekend" }

Range(seq) == { seq[i] : i \in DOMAIN seq }

\* a and b are the same letter, in either case
SameLetter(a, b) ==
    \/ a = b
    \/ \E i \in DOMAIN UpperChars : { a, b } = { UpperChars[i], LowerChars[i] }

\* word occurs in s, letter case ignored
HasWordAnyCase(word, s) ==
    \E at \in 0 .. (Len(s) - Len(word)) :
        \A j \in 1 .. Len(word) : SameLetter(s[at + j], word[j])

\* text is one of "x", "yes", "1" in any letter case
IsMarkerText(text) ==
    \E m \in CoverageMarkers :
        /\ Len(text) = Len(m)
        /\ \A j \in 1 .. Len(m) : SameLetter(text[j], m[j])

\* text is a marker once the white space around it is removed
IsMarkerTextTrimmed(text) ==
    \E a \in 0 .. Len(text), b \in 0 .. Len(text) :
        /\ a <= b
        /\ \A j \in 1 .. a : text[j] \in Whitespace
        /\ \A j \in (b + 1) .. Len(text) : text[j] \in Whitespace
        /\ IsMarkerText(SubSeq(text, a + 1, b))

\* the day type of a sheet name as the specification words it
NameDayType(name) ==
    IF HasWordAnyCase(WeekendWord, name) THEN "Weekend" ELSE "Weekday"

\* the data rows of the document that have cells: table t, row r (after the
\* header)
DataRowsOf ==
    UNION { { << t, r >> : r \in { q \in 2 .. Len(file.tables[t].rows) :
                                      file.tables[t].rows[q] # << >> } } :
            t \in DOMAIN file.tables }

\* the data cells of the document: table t, row r, Python column index i >= 1
DataCells ==
    UNION { { << rw[1], rw[2], i >> :
                i \in 1 .. (Len(file.tables[rw[1]].rows[rw[2]]) - 1) } :
            rw \in DataRowsOf }

CellAt(c) == file.tables[c[1]].rows[c[2]][c[3] + 1]
LabelAt(c) == extract_text(file.tables[c[1]].rows[c[2]][1])
NameAt(c) == SheetName(file.tables[c[1]])

\* the column-0 labels of the data rows
Labels == { LabelAt(rw) : rw \in DataRowsOf }
Names == { SheetName(file.tables[t]) : t \in DOMAIN file.tables }

\* some sheet named N has a data row labelled T with a true coverage cell
CoveredIn(T, N) ==
    \E c \in DataCells :
        NameAt(c) = N /\ LabelAt(c) = T /\ IsMarkerTextTrimmed(RawText(CellAt(c)))

\* the sets of the aggregated maps, empty for an absent subject
SetOf(d, subject, D) == GetOrDefault(d, subject)[D]

-----------------------------------------------------------------------------
(* Claims *)

\* C1: for every study type S of the aggregated map the gap list holds
\* "S - Missing WEEKDAY coverage" iff S's Weekday set is empty and
\* "S - Missing WEEKEND coverage" iff S's Weekend set is empty, and the gap
\* list holds nothing else.
C1_GapCorrectness ==
    /\ \A S \in Keys(study_type_coverage) :
          /\ (S \o MissingWeekday) \in Range(gaps)
                <=> Get(study_type_coverage, S).Weekday = {}
          /\ (S \o MissingWeekend) \in Range(gaps)
                <=> Get(study_type_coverage, S).Weekend = {}
    /\ \A g \in Range(gaps) :
          \E S \in Keys(study_type_coverage) :
              g = S \o MissingWeekday \/ g = S \o MissingWeekend

C1_Witness ==
    /\ pc = "done"
    /\ \E S \in Keys(study_type_coverage) :
          Get(study_type_coverage, S).Weekday = {}
    /\ \E S \in Keys(study_type_coverage) :
          Get(study_type_coverage, S).Weekend = {}

\* C2: once the analysis has run, every non-empty study-type label of a data
\* row that no Weekday sheet (no Weekend sheet) covers has its Weekday
\* (Weekend) gap in the gap list and the verdict is FAILED, a label covered
\* in no sheet at all included.
C2_EveryStudyTypeJudged ==
    pc = "done" =>
        \A T \in Labels \ { << >> } :
            /\ (~ \E N \in Names : NameDayType(N) = "Weekday" /\ CoveredIn(T, N))
                  => /\ (T \o MissingWeekday) \in Range(gaps)
                     /\ printed.verdict = "FAILED"
            /\ (~ \E N \in Names : NameDayType(N) = "Weekend" /\ CoveredIn(T, N))
                  => /\ (T \o MissingWeekend) \in Range(gaps)
                     /\ printed.verdict = "FAILED"

\* C3: the verdict printed is PASSED iff the gap list is empty and FAILED
\* otherwise, and the gap count printed is the length of the gap list.
C3_VerdictIffNoGaps ==
    pc = "done" =>
        /\ printed.verdict = "PASSED" <=> gaps = << >>
        /\ printed.verdict = "FAILED" <=> gaps # << >>
        /\ printed.gap_count = Len(gaps)

C3_Witness ==
    pc = "done" /\ printed.verdict = "FAILED" /\ Len(gaps) = 1

\* C4 as stated: after parsing and aggregating, N is in the matrix set of T
\* for D iff D is the day type of N and a sheet named N has a data row
\* labelled T with a true coverage cell -- for every label T, blank or not.
C4_AsStated ==
    pc = "done" =>
        \A T \in Labels \cup Keys(study_type_coverage), N \in Names, D \in DayTypes :
            N \in SetOf(study_type_coverage, T, D)
                <=> (D = NameDayType(N) /\ CoveredIn(T, N))

\* C4 (amended): the same for every non-empty label T; a row whose label is
\* blank adds nothing, and the matrix holds no other study type or sheet.
C4_MatrixMembership ==
    pc = "done" =>
        /\ \A T \in (Labels \cup Keys(study_type_coverage)) \ { << >> },
              N \in Names, D \in DayTypes :
                N \in SetOf(study_type_coverage, T, D)
                    <=> (D = NameDayType(N) /\ CoveredIn(T, N))
        /\ << >> \notin Keys(study_type_coverage)
        /\ \A T \in Keys(study_type_coverage), D \in DayTypes :
              SetOf(study_type_coverage, T, D) \subseteq Names

C4_Witness ==
    /\ pc = "done"
    /\ \E c \in DataCells :
          LabelAt(c) = << >> /\ IsMarkerTextTrimmed(RawText(CellAt(c)))
    /\ \E T \in Keys(study_type_coverage), c \in DataCells :
          LabelAt(c) = T /\ NameAt(c) \in Get(study_type_coverage, T).Weekend

\* C5: the day type computed for a sheet is Weekend when its name holds
\* "weekend" in any letter case and Weekday for every other name, the
\* fallback name "Unknown" included; it is never anything else.  The hour
\* viewer derives the same day type from the name.
C5_DayTypeFromName ==
    (pc # "start" /\ file.kind = "ok") =>
        /\ DOMAIN day_types = DOMAIN file.tables
        /\ \A t \in DOMAIN day_types :
              LET name == day_types[t][1]
                  day  == day_types[t][2]
              IN  /\ name = (IF file.tables[t].named THEN file.tables[t].name
                             ELSE UnknownName)
                  /\ day \in DayTypes
                  /\ day = "Weekend" <=> HasWordAnyCase(WeekendWord, name)
                  /\ HourViewerDayType(name) = day

C5_Witness ==
    /\ pc # "start"
    /\ \E t \in DOMAIN day_types :
          /\ day_types[t][2] = "Weekend"
          /\ ~ Contains(WeekendWord, day_types[t][1])
    /\ \E t \in DOMAIN day_types :
          day_types[t] = << UnknownName, "Weekday" >> /\ ~ file.tables[t].named

\* the key under which the parser records the data cell c
HeaderOf(c) ==
    [k \in DOMAIN file.tables[c[1]].rows[1] |->
        extract_text(file.tables[c[1]].rows[1][k])]
KeyOf(c) == << NameAt(c), LabelAt(c), ShiftPosition(HeaderOf(c), c[3]) >>

\* coverage_data holds the key << sheet, study type, position >>
Recorded(key) ==
    /\ Has(coverage_data, key[1])
    /\ Has(Get(coverage_data, key[1]), key[2])
    /\ Has(Get(Get(coverage_data, key[1]), key[2]), key[3])

LabelledCells == { c \in DataCells : LabelAt(c) # << >> }

\* C6 as stated: a data cell counts as coverage iff its text, lower-cased,
\* is exactly "x", "yes" or "1"; text with white space around the marker,
\* such as "X ", does not count.
C6_AsStated ==
    (pc # "start" /\ file.kind = "ok") =>
        \A c \in LabelledCells :
            Recorded(KeyOf(c))
                <=> \E c2 \in LabelledCells :
                        KeyOf(c2) = KeyOf(c) /\ IsMarkerText(RawText(CellAt(c2)))

\* C6 (amended): a data cell counts as coverage iff its text, with the white
\* space around it removed and lower-cased, is exactly "x", "yes" or "1";
\* "X " therefore counts, "no", "" and "2" do not.
C6_MarkerAfterTrim ==
    (pc # "start" /\ file.kind = "ok") =>
        \A c \in LabelledCells :
            Recorded(KeyOf(c))
                <=> \E c2 \in LabelledCells :
                        KeyOf(c2) = KeyOf(c)
                        /\ IsMarkerTextTrimmed(RawText(CellAt(c2)))

C6_Witness ==
    /\ pc # "start"
    /\ \E c \in LabelledCells :
          RawText(CellAt(c)) = << "X", " " >> /\ Recorded(KeyOf(c))

\* the entries of the parser's day_types for the sheet name N
ParserDays(N) == { day_types[t][2] : t \in { u \in DOMAIN day_types : day_types[u][1] = N } }

SetsMatchDayType(d) ==
    \A subject \in Keys(d) :
        /\ \A D \in DayTypes :
              \A N \in Get(d, subject)[D] : ParserDays(N) = { D }
        /\ Get(d, subject).Weekday \cap Get(d, subject).Weekend = {}

\* C7: in both aggregated maps every Weekday set holds only sheets whose day
\* type, as the parser computed it, is Weekday, and every Weekend set only
\* sheets whose day type is Weekend; no sheet is in both sets of a subject.
C7_SetsMatchDayType ==
    pc = "done" =>
        /\ SetsMatchDayType(study_type_coverage)
        /\ SetsMatchDayType(category_coverage)

C7_Witness ==
    /\ pc = "done"
    /\ \E subject \in Keys(category_coverage) :
          /\ WeekEndName \in Get(category_coverage, subject).Weekend
          /\ Get(category_coverage, subject).Weekday # {}

\* a dict as a mapping, insertion order forgotten (Python's dict equality)
AsMap(d) == [k \in Keys(d) |-> Get(d, k)]

SheetOrders(n) ==
    { p \in [1 .. n -> 1 .. n] : \A i, j \in 1 .. n : p[i] = p[j] => i = j }
Permuted(tables, p) == [i \in DOMAIN tables |-> tables[p[i]]]

\* the run of the same program on the tables in another order
Reparsed(tables) == ParseTables(<< >>, tables, 1)
Reaggregated(tables) ==
    Aggregate([stc |-> << >>, cc |-> << >>], Reparsed(tables), 1)

\* C8: for every permutation of the sheets of the document, parsing and
\* aggregating them in the permuted order gives the same study-type matrix,
\* the same category map and the same set of gaps.
C8_OrderIndependent ==
    pc = "done" =>
        \A p \in SheetOrders(Len(file.tables)) :
            LET agg == Reaggregated(Permuted(file.tables, p))
            IN  /\ AsMap(agg.stc) = AsMap(study_type_coverage)
                /\ AsMap(agg.cc) = AsMap(category_coverage)
                /\ Range(FindGaps(<< >>, agg.stc, 1)) = Range(gaps)

C8_Witness ==
    /\ pc = "done"
    /\ \E p \in SheetOrders(Len(file.tables)) :
          /\ KeyList(Reparsed(Permuted(file.tables, p))) # KeyList(coverage_data)
          /\ KeyList(Reaggregated(Permuted(file.tables, p)).stc)
                # KeyList(study_type_coverage)

\* the table has a data row labelled T with a true coverage cell
TableCovers(table, T) ==
    \E r \in 2 .. Len(table.rows) :
        /\ table.rows[r] # << >>
        /\ extract_text(table.rows[r][1]) = T
        /\ \E i \in 2 .. Len(table.rows[r]) :
              IsMarkerTextTrimmed(RawText(table.rows[r][i]))

\* run k + 1 validated the document of run k with one more sheet, which
\* covers a study type the matrix of run k already had
AddedSheetRun(k) ==
    LET before == history[k].file.tables
        after  == history[k + 1].file.tables
    IN  /\ after # << >>
        /\ before = SubSeq(after, 1, Len(after) - 1)
        /\ \E T \in Keys(history[k].stc) : TableCovers(after[Len(after)], T)

\* C9: when a sheet with a true coverage cell for a study type T of the
\* matrix is added to the document, every set of every study type after the
\* addition includes the set before it, and T's set for the new sheet's day
\* type holds the new sheet's name.
C9_AddingSheetOnlyGrows ==
    \A k \in 1 .. (Len(history) - 1) :
        AddedSheetRun(k) =>
            LET added == history[k + 1].file.tables[Len(history[k + 1].file.tables)]
            IN  /\ \A S \in Keys(history[k].stc), D \in DayTypes :
                      Get(history[k].stc, S)[D]
                          \subseteq SetOf(history[k + 1].stc, S, D)
                /\ \A T \in Keys(history[k].stc) :
                      TableCovers(added, T) =>
                          SheetName(added)
                              \in SetOf(history[k + 1].stc, T,
                                        NameDayType(SheetName(added)))

C9_Witness ==
    \E k \in 1 .. (Len(history) - 1) :
        /\ AddedSheetRun(k)
        /\ \E S \in Keys(history[k].stc), D \in DayTypes :
              /\ Get(history[k].stc, S)[D] # {}
              /\ Get(history[k].stc, S)[D] # Get(history[k + 1].stc, S)[D]

\* C10: two runs on the same document give equal matrices, set for set,
\* equal category maps and equal gap lists, whatever was run in between.
C10_RunsDependOnDocumentOnly ==
    \A j \in DOMAIN history, k \in DOMAIN history :
        history[j].file = history[k].file =>
            /\ AsMap(history[j].stc) = AsMap(history[k].stc)
            /\ AsMap(history[j].cc) = AsMap(history[k].cc)
            /\ history[j].gaps = history[k].gaps

C10_Witness ==
    /\ Len(history) >= 3
    /\ history[1].file = history[3].file
    /\ Keys(history[2].stc) # Keys(history[1].stc)

\* C11: when the file is not a container or has no content.xml, the run
\* reports the read failure and ends with status 1, no sheet is parsed, and
\* no matrix, partial or empty, is returned or analysed; the shift-list tool
\* fails on the same files in the same way.
C11_ContainerErrorStopsRun ==
    file.kind \in { "not_zip", "no_content" } =>
        /\ pc \in { "start", "parsed", "failed" }
        /\ day_types = << >> /\ coverage_data = << >>
        /\ study_type_coverage = << >> /\ category_coverage = << >>
        /\ gaps = << >> /\ printed.verdict = "none"
        /\ pc # "start" =>
              /\ parse_result = "None"
              /\ printed.error = "Failed to read ODS file"
        /\ pc = "parsed" => ENABLED main_failed /\ ~ ENABLED analyze_coverage
        /\ pc = "failed" => exit_status = 1
        /\ ParseOdsRead(file.kind)
              = [error |-> "Failed to read ODS file", exit_status |-> 1]

C11_Witness ==
    file.kind = "no_content" /\ pc = "failed" /\ exit_status = 1

\* C12: when content.xml is not well-formed, or lacks the body or the
\* spreadsheet element, the run ends as a reported failure with a readable
\* cause and status 1, and no matrix is returned; the three defects are
\* treated alike.
C12_FormatErrorSameTreatment ==
    file.kind \in { "malformed", "no_body", "no_spreadsheet" } =>
        /\ pc \in { "start", "parsed", "failed" }
        /\ coverage_data = << >> /\ study_type_coverage = << >>
        /\ pc # "start" =>
              /\ parse_result = "None"
              /\ printed.error = "Failed to parse XML"
        /\ pc = "failed" => exit_status = 1

\* C13: a run on a document that opens and has the body/spreadsheet
\* structure goes on from parsing to the gap analysis and ends with a
\* verdict, whatever its sheets, rows and markers; it never takes the
\* failure path.
C13_ReadableDocumentReachesVerdict ==
    file.kind = "ok" =>
        /\ pc \notin { "failed", "crashed" }
        /\ pc = "parsed" => ENABLED analyze_coverage
        /\ pc = "done" => printed.verdict \in { "PASSED", "FAILED" }

\* C14: for the document of scenario 1 the matrix has the one study type
\* "CPMC CT Neuro" with Weekday = {"Weekday 5-6 PM Neuro"} and Weekend = {},
\* and the gap list is exactly its Weekend gap.
C14_Scenario1 ==
    (file = Scenario1File /\ pc # "start") =>
        /\ pc \in { "parsed", "done" }
        /\ pc = "done" =>
              /\ KeyList(study_type_coverage) = << CPMCCTNeuro >>
              /\ Get(study_type_coverage, CPMCCTNeuro)
                    = [Weekday |-> { Scenario1Name }, Weekend |-> {}]
              /\ gaps = << CPMCCTNeuro \o MissingWeekend >>

C14_Witness == file = Scenario1File /\ pc = "done"

\* no key occurs twice in the dict
UniqueKeys(d) == \A i \in DOMAIN d, j \in DOMAIN d : d[i][1] = d[j][1] => i = j

\* C15: rows with the same label in different sheets are one study type with
\* one entry in the matrix; a label covered in a Weekday sheet and in a
\* Weekend sheet has both sets non-empty and no gap, as in scenario 2.
C15_OneStudyTypePerLabel ==
    pc = "done" =>
        /\ UniqueKeys(study_type_coverage)
        /\ \A T \in Labels \ { << >> } :
              ( /\ \E N \in Names : NameDayType(N) = "Weekday" /\ CoveredIn(T, N)
                /\ \E N \in Names : NameDayType(N) = "Weekend" /\ CoveredIn(T, N) )
              => /\ Has(study_type_coverage, T)
                 /\ Get(study_type_coverage, T).Weekday # {}
                 /\ Get(study_type_coverage, T).Weekend # {}
                 /\ (T \o MissingWeekday) \notin Range(gaps)
                 /\ (T \o MissingWeekend) \notin Range(gaps)
        /\ file = Scenario2File =>
              /\ Get(study_type_coverage, AllenMRBody)
                    = [Weekday |-> { WeekdayOvernight },
                       Weekend |-> { WeekendOvernight }]
              /\ gaps = << >>

C15_Witness == file = Scenario2File /\ pc = "done" /\ printed.verdict = "PASSED"

\* the positions coverage_data holds for study type T in sheet N
PositionsOf(N, T) ==
    IF Has(coverage_data, N) /\ Has(Get(coverage_data, N), T)
    THEN Keys(Get(Get(coverage_data, N), T)) ELSE {}

IsTrueCell(c) == IsMarkerTextTrimmed(RawText(CellAt(c)))

\* the label the specification gives the column of the data cell c
ColumnLabel(i) ==
    << "C","o","l","u","m","n",
       << "0","1","2","3","4","5","6","7","8","9" >>[i + 1] >>
ExpectedPosition(c) ==
    LET header == file.tables[c[1]].rows[1]
    IN  IF Len(header) > c[3] THEN extract_text(header[c[3] + 1])
        ELSE ColumnLabel(c[3])

Column2 == << "C","o","l","u","m","n","2" >>

\* C16: every true coverage cell at column i >= 1 is recorded under the
\* header label of column i when the header has more than i cells and under
\* "Column<i>" otherwise, and nothing else is recorded; a row longer than
\* the header raises no error, and the header's column 0 is never a position.
C16_ShiftPositionLabel ==
    (pc # "start" /\ file.kind = "ok") =>
        /\ parse_result = "dict"
        /\ \A c \in LabelledCells :
              IsTrueCell(c) => ExpectedPosition(c) \in PositionsOf(NameAt(c), LabelAt(c))
        /\ \A N \in Names, T \in Labels :
              \A pos \in PositionsOf(N, T) :
                  \E c \in LabelledCells :
                      /\ NameAt(c) = N /\ LabelAt(c) = T /\ IsTrueCell(c)
                      /\ pos = ExpectedPosition(c)
        /\ \A N \in Names, T \in Labels : Study \notin PositionsOf(N, T)

C16_Witness ==
    /\ pc # "start"
    /\ Len(file.tables) = 1
    /\ file.tables[1].rows # << >>
    /\ Len(file.tables[1].rows[1]) = 2
    /\ \E c \in LabelledCells :
          /\ c[3] = 2 /\ Len(file.tables[1].rows[c[2]]) = 3
          /\ PositionsOf(NameAt(c), LabelAt(c)) = { Column2 }

\* the tables without what the parser skips: tables with no row, rows with
\* no cell, rows whose column 0 has no text
KeptRow(row) == row # << >> /\ extract_text(row[1]) # << >>
WithoutSkipped(tables) ==
    LET kept == SelectSeq(tables, LAMBDA t : t.rows # << >>)
    IN  [t \in DOMAIN kept |->
            [kept[t] EXCEPT !.rows = << kept[t].rows[1] >>
                                     \o SelectSeq(Tail(kept[t].rows), KeptRow)]]

\* C17: rows with an empty study-type cell, rows with no cell and sheets with
\* no row leave the coverage data as it is without them, markers in a
\* skipped row included, and raise no error; the first row of a sheet never
\* contributes coverage.
C17_SkippedRowsChangeNothing ==
    (pc # "start" /\ file.kind = "ok") =>
        /\ parse_result = "dict"
        /\ coverage_data = Reparsed(WithoutSkipped(file.tables))
        /\ \A N \in Keys(coverage_data) :
              /\ << >> \notin Keys(Get(coverage_data, N))
              /\ \A T \in Keys(Get(coverage_data, N)) : CoveredIn(T, N)

C17_Witness ==
    /\ pc # "start"
    /\ coverage_data # << >>
    /\ WithoutSkipped(file.tables) # file.tables
    /\ \E c \in DataCells : LabelAt(c) = << >> /\ IsTrueCell(c)
    /\ \E t \in DOMAIN file.tables :
          /\ file.tables[t].rows # << >>
          /\ KeptRow(file.tables[t].rows[1])
          /\ \E i \in 2 .. Len(file.tables[t].rows[1]) :
                IsMarkerTextTrimmed(RawText(file.tables[t].rows[1][i]))

\* the positions marked true in the data row rw
RowMarks(rw) ==
    { ShiftPosition(HeaderOf(c), c[3]) :
        c \in { d \in DataCells : d[1] = rw[1] /\ d[2] = rw[2] /\ IsTrueCell(d) } }

\* C18: the positions recorded for a label in a sheet are the union of the
\* positions marked true in each of the sheet's rows with that label; a
\* later row, with or without a true cell, removes nothing.
C18_RowsOfOneLabelAccumulate ==
    (pc # "start" /\ file.kind = "ok") =>
        \A N \in Names, T \in Labels \ { << >> } :
            PositionsOf(N, T)
                = UNION { RowMarks(rw) :
                            rw \in { q \in DataRowsOf :
                                       SheetName(file.tables[q[1]]) = N
                                       /\ LabelAt(q) = T } }

C18_Witness ==
    /\ pc # "start"
    /\ \E rw \in DataRowsOf, rx \in DataRowsOf :
          /\ rw[1] = rx[1] /\ rw[2] < rx[2] /\ LabelAt(rw) = LabelAt(rx)
          /\ RowMarks(rw) # {} /\ RowMarks(rx) # {}
          /\ RowMarks(rw) \cap RowMarks(rx) = {}
          /\ PositionsOf(SheetName(file.tables[rw[1]]), LabelAt(rw))
                = RowMarks(rw) \cup RowMarks(rx)

\* the category the specification's ordered rules give a label
CategoryBySpec(label) ==
    LET has(w) == HasWordAnyCase(w, label)
        split(family) ==
            IF has(<< "n","e","u","r","o" >>) THEN family \o " Neuro"
            ELSE IF has(<< "b","o","d","y" >>) THEN family \o " Body"
            ELSE family
    IN  CASE has(<< "c","t" >>) -> split("CT")
          [] ~ has(<< "c","t" >>) /\ has(<< "m","r" >>) -> split("MRI")
          [] OTHER ->
               IF has(<< "u","s" >>) THEN "Ultrasound"
               ELSE IF \/ has(<< "d","x" >>) \/ has(<< "x","-","r","a","y" >>)
                       \/ has(<< "x","r","a","y" >>) THEN "X-Ray"
               ELSE IF has(<< "n","m" >>) \/ has(<< "n","u","c","l","e","a","r" >>)
               THEN "Nuclear Medicine"
               ELSE IF has(<< "f","l","u","o","r","o" >>) THEN "Fluoroscopy"
               ELSE IF has(<< "p","e","t" >>) THEN "PET"
               ELSE "Other"

Categories ==
    { "CT Neuro", "CT Body", "CT", "MRI Neuro", "MRI Body", "MRI", "Ultrasound",
      "X-Ray", "Nuclear Medicine", "Fluoroscopy", "PET", "Other" }

ClassifiedTo(C) == { T \in Keys(study_type_coverage) : extract_study_category(T) = C }

\* C20: for every category C and day type D the category map's set C[D] is
\* the union of the sets D of the study types that classify to C; a
\* category is in the category map iff some study type classifies to it.
C20_CategoryIsUnionOfStudyTypes ==
    pc = "done" =>
        /\ \A C \in Categories \cup Keys(category_coverage) :
              /\ Has(category_coverage, C) <=> ClassifiedTo(C) # {}
              /\ \A D \in DayTypes :
                    SetOf(category_coverage, C, D)
                        = UNION { SetOf(study_type_coverage, T, D) : T \in ClassifiedTo(C) }
        /\ UniqueKeys(category_coverage)

C20_Witness ==
    /\ pc = "done"
    /\ \E C \in Keys(category_coverage) :
          \E T \in ClassifiedTo(C), U \in ClassifiedTo(C) :
              /\ T # U
              /\ SetOf(study_type_coverage, T, "Weekday") # {}
              /\ SetOf(study_type_coverage, T, "Weekend") = {}
              /\ SetOf(study_type_coverage, U, "Weekend") # {}
              /\ SetOf(study_type_coverage, U, "Weekday") = {}
              /\ SetOf(category_coverage, C, "Weekday") # {}
              /\ SetOf(category_coverage, C, "Weekend") # {}

\* the time-range rules as the specification lists them, in order
RefTimeRules ==
    << [words |-> { << "5" >>, << "6" >>, << "p","m" >> }, label |-> "5-6 PM"],
       [words |-> { << "6" >>, << "1","2" >>, << "a","m" >> },
        label |-> "6 PM to Midnight"],
       [words |-> { << "5" >>, << "1","2" >>, << "a","m" >> },
        label |-> "5 PM to Midnight"],
       [words |-> { << "1","0" >>, << "m","i","d","n","i","g","h","t" >> },
        label |-> "10 PM to Midnight"],
       [words |-> { << "1","2","a","m" >>, << "1","a","m" >> },
        label |-> "Midnight to 1 AM"],
       [words |-> { << "1" >>, << "8" >>, << "a","m" >> }, label |-> "1 AM to 8 AM"] >>

\* the label of the first rule all of whose words occur in the name, letter
\* case ignored; "none" when no rule matches
RefTimeLabel(name) ==
    LET matching == { k \in DOMAIN RefTimeRules :
                        \A w \in RefTimeRules[k].words : HasWordAnyCase(w, name) }
    IN  IF matching = {} THEN "none"
        ELSE RefTimeRules[CHOOSE k \in matching : \A j \in matching : k <= j].label

\* C21: at both call sites the time-range label of a sheet name is the label
\* of the first rule all of whose substrings occur in the lower-cased name,
\* the last rule giving "1 AM to 8 AM"; with no rule matching the hour viewer
\* gives "Unknown" and the summary "extended hours"; for a name that matches
\* a rule the two call sites give the same label.
C21_TimeRangeLabel ==
    /\ (tool = "viewer" /\ pc \in { "loaded", "repl", "done", "failed" }) =>
          \A k \in DOMAIN all_coverage :
              all_coverage[k].time_range
                  = IF RefTimeLabel(all_coverage[k].sheet_name) = "none" THEN "Unknown"
                    ELSE RefTimeLabel(all_coverage[k].sheet_name)
    /\ (tool = "summary" /\ pc = "done") =>
          \A k \in DOMAIN report.time_lines :
              LET line == report.time_lines[k]
                  ref  == RefTimeLabel(line.sheet_name)
              IN  /\ line.time_range = IF ref = "none" THEN "extended hours" ELSE ref
                  /\ ref # "none" =>
                        line.time_range
                            = parse_time_from_sheet_name(line.sheet_name).time_range

\* the years written in the generated dates
RefYears == { 2023, 2024 }

\* the ways strptime accepts a month or a day to be written
Written(n) == IF n < 10 THEN { Str(n), << "0" >> \o Str(n) } ELSE { Str(n) }

RefDaysIn(y, m) ==
    IF m \in { 1, 3, 5, 7, 8, 10, 12 } THEN 31
    ELSE IF m # 2 THEN 30
    ELSE IF y % 400 = 0 \/ (y % 4 = 0 /\ y % 100 # 0) THEN 29 ELSE 28

RefCalendar ==
    { << y, m, d >> : y \in RefYears, m \in 1 .. 12, d \in 1 .. 31 }

\* every calendar date written in each of the three formats
WrittenYMD ==
    UNION { { << Str(c[1]) \o << "-" >> \o mw \o << "-" >> \o dw, c >> :
                mw \in Written(c[2]), dw \in Written(c[3]) } :
            c \in { e \in RefCalendar : e[3] <= RefDaysIn(e[1], e[2]) } }
WrittenMDY ==
    UNION { { << mw \o << "/" >> \o dw \o << "/" >> \o Str(c[1]), c >> :
                mw \in Written(c[2]), dw \in Written(c[3]) } :
            c \in { e \in RefCalendar : e[3] <= RefDaysIn(e[1], e[2]) } }
WrittenDMY ==
    UNION { { << dw \o << "/" >> \o mw \o << "/" >> \o Str(c[1]), c >> :
                mw \in Written(c[2]), dw \in Written(c[3]) } :
            c \in { e \in RefCalendar : e[3] <= RefDaysIn(e[1], e[2]) } }

\* the calendar dates a string is read as, format by format
ReadAs(date, written) == { w[2] : w \in { v \in written : v[1] = date } }

\* the day of the week by Sakamoto's method, Sunday being 0
MonthTerm == << 0, 3, 2, 5, 0, 3, 5, 1, 4, 6, 2, 4 >>
DayOfWeek(c) ==
    LET y == IF c[2] < 3 THEN c[1] - 1 ELSE c[1]
    IN  (y + (y \div 4) - (y \div 100) + (y \div 400) + MonthTerm[c[2]] + c[3]) % 7
OnWeekend(c) == DayOfWeek(c) \in { 0, 6 }

\* the day type of a shift as the specification words it
RefShiftDayType(name, date) ==
    IF HasWordAnyCase(WeekendWord, name) THEN "Weekend"
    ELSE IF HasWordAnyCase(WEEKDAY, name) THEN "Weekday"
    ELSE LET first == IF ReadAs(date, WrittenYMD) # {} THEN ReadAs(date, WrittenYMD)
                      ELSE IF ReadAs(date, WrittenMDY) # {} THEN ReadAs(date, WrittenMDY)
                      ELSE ReadAs(date, WrittenDMY)
         IN  IF first = {} THEN "Unknown"
             ELSE IF \A c \in first : OnWeekend(c) THEN "Weekend" ELSE "Weekday"

\* C22: the day type of a shift is Weekend when the sheet name contains
\* "weekend" in any letter case, else Weekday when it contains "weekday",
\* else that of its date read as YYYY-MM-DD, MM/DD/YYYY, DD/MM/YYYY, the
\* first format that parses deciding (Saturday, Sunday: Weekend), and Unknown
\* when the date is empty or no format parses.
C22_ShiftDayType ==
    (tool = "shifts" /\ pc \in { "parsed", "done" }) =>
        /\ \A k \in DOMAIN shifts :
              get_day_type(shifts[k].is_weekend)
                  = RefShiftDayType(shifts[k].sheet_name, shifts[k].date)
        /\ (pc = "done" /\ Len(shifts) = 1) =>
              /\ Len(coverage_matrix) = 1
              /\ coverage_matrix[1][2]
                    = [NoShifts EXCEPT
                         ![RefShiftDayType(shifts[1].sheet_name, shifts[1].date)] = 1]

\* a date that is a Monday read as MM/DD/YYYY and a Sunday read as DD/MM/YYYY
C22_Witness ==
    /\ tool = "shifts" /\ pc = "done"
    /\ Len(shifts) = 1
    /\ shifts[1].date = << "7","/","0","1","/","2","0","2","4" >>
    /\ shifts[1].sheet_name = << "S","h","e","e","t","1" >>
    /\ coverage_matrix[1][2].Weekday = 1

\* the paragraph texts of a cell joined by one space, built from the left
RECURSIVE RefJoin(_)
RefJoin(texts) ==
    IF Len(texts) = 0 THEN << >>
    ELSE IF Len(texts) = 1 THEN texts[1]
    ELSE RefJoin(SubSeq(texts, 1, Len(texts) - 1)) \o << " " >> \o texts[Len(texts)]
RefJoined(cell) == RefJoin(SelectSeq(cell, LAMBDA t : Len(t) > 0))

\* r is s without the white space at its two ends
IsTrimOf(r, s) ==
    \E a \in 0 .. Len(s), b \in 0 .. Len(s) :
        /\ a + Len(r) + b = Len(s)
        /\ \A j \in 1 .. a : s[j] \in Whitespace
        /\ \A j \in (Len(s) - b + 1) .. Len(s) : s[j] \in Whitespace
        /\ \A j \in 1 .. Len(r) : r[j] = s[a + j]
        /\ r = << >> \/ (r[1] \notin Whitespace /\ r[Len(r)] \notin Whitespace)

\* the cells of the document: the header cells, the label cells, the data cells
AllCells ==
    UNION { UNION { { file.tables[t].rows[r][k] : k \in DOMAIN file.tables[t].rows[r] } :
                    r \in DOMAIN file.tables[t].rows } :
            t \in DOMAIN file.tables }

C24_ParsedStructuresReadOnly ==
    [][/\ (tool = "grid" /\ pc = "parsed") => coverage_data' = coverage_data
       /\ (tool = "viewer" /\ pc = "repl") => all_coverage' = all_coverage]_vars

\* an hour query that showed coverage
C24_Witness ==
    /\ tool = "viewer" /\ pc = "repl"
    /\ repl.cmd = "hour" /\ repl.relevant # << >>
    /\ all_coverage = ViewerTables(<< >>, file.tables, 1)

\* C25: every study type of the aggregated map has a non-empty Weekday or
\* Weekend set, so it has at most one gap, never both, and there are no
\* more gaps than study types.
C25_AtMostOneGapPerStudyType ==
    pc = "done" =>
        /\ \A S \in Keys(study_type_coverage) :
              /\ SetOf(study_type_coverage, S, "Weekday")
                    \cup SetOf(study_type_coverage, S, "Weekend") # {}
              /\ Cardinality({ k \in DOMAIN gaps :
                                 gaps[k] \in { S \o MissingWeekday,
                                               S \o MissingWeekend } }) <= 1
        /\ Len(gaps) <= Cardinality(Keys(study_type_coverage))

\* two study types, each with its one gap
C25_Witness ==
    /\ pc = "done"
    /\ Cardinality(Keys(study_type_coverage)) = 2
    /\ Len(gaps) = 2

\* the study types, positions and day types each parser records for sheet N
GridStudies(N) ==
    IF Has(coverage_data, N) THEN Keys(Get(coverage_data, N)) ELSE {}
GridPositions(N) == UNION { PositionsOf(N, T) : T \in GridStudies(N) }
SummaryStudies(sheets, N) ==
    IF Has(sheets, N) THEN Get(sheets, N).studies ELSE {}
SummaryPositions(sheets, N) ==
    IF Has(sheets, N) THEN Get(sheets, N).positions ELSE {}
ViewerEntries(entries, N) ==
    { entries[k] : k \in { j \in DOMAIN entries : entries[j].sheet_name = N } }

\* C26: the three grid parsers agree on every document: each records the
\* same study types as covered in the same sheets, the same day type for
\* every sheet and the same set of shift-position labels for every sheet.
C26_ParsersAgree ==
    (pc = "parsed" /\ file.kind = "ok") =>
        LET sheets == SummaryTables(EmptySummaryData, file.tables, 1).sheets
            entries == ViewerTables(<< >>, file.tables, 1)
        IN  /\ Keys(coverage_data) = Keys(sheets)
            /\ Keys(coverage_data) = { entries[k].sheet_name : k \in DOMAIN entries }
            /\ \A N \in Names \cup Keys(coverage_data) :
                  LET of_sheet == ViewerEntries(entries, N)
                  IN  /\ GridStudies(N) = SummaryStudies(sheets, N)
                      /\ GridStudies(N) = { e.study_type : e \in of_sheet }
                      /\ GridPositions(N) = SummaryPositions(sheets, N)
                      /\ GridPositions(N) = { e.shift_position : e \in of_sheet }
                      /\ Has(coverage_data, N) =>
                            /\ << N, Get(sheets, N).day_type >> \in Range(day_types)
                            /\ \A e \in of_sheet :
                                  e.day_type = Get(sheets, N).day_type
                            /\ \A pair \in Range(day_types) :
                                  pair[1] = N => pair[2] = Get(sheets, N).day_type

\* a document with coverage in a weekday sheet and in a weekend sheet
C26_Witness ==
    /\ pc = "parsed"
    /\ Cardinality(Keys(coverage_data)) >= 2
    /\ Len(ViewerTables(<< >>, file.tables, 1)) >= 2
    /\ \E N \in Keys(coverage_data) : << N, "Weekend" >> \in Range(day_types)
    /\ \E N \in Keys(coverage_data) : << N, "Weekday" >> \in Range(day_types)

\* the gap list analyze_coverage of the grid tool computes for the document
AnalyzerGaps ==
    FindGaps(<< >>,
             Aggregate([stc |-> << >>, cc |-> << >>],
                       ParseTables(EmptyCoverageData, file.tables, 1), 1).stc,
             1)

\* C27: the summary reports "SCHEDULE VALIDATION: PASSED", "Every study type
\* has weekday coverage", "Every study type has weekend coverage" and "Zero
\* coverage gaps identified" only for documents for which the grid tool's
\* analyze_coverage finds an empty gap list.
C27_SummaryAgreesWithAnalyzer ==
    ( /\ tool = "summary"
      /\ pc = "done"
      /\ \/ report.validation = "PASSED"
         \/ "Every study type has weekday coverage" \in report.checks
         \/ "Every study type has weekend coverage" \in report.checks
         \/ "Zero coverage gaps identified" \in report.insights )
    => AnalyzerGaps = << >>

\* the tables of the document that carry the sheet name N
TablesNamed(N) == { t \in DOMAIN file.tables : SheetName(file.tables[t]) = N }

\* C28: sheets are keyed by name only: coverage_data has one entry per sheet
\* name, holding the union of the study types and positions of all sheets
\* of that name (sheets without a name attribute go by "Unknown"), a name
\* counts once in every Weekday/Weekend set, and sheets whose names differ
\* never share an entry.
C28_SheetsKeyedByName ==
    (pc \in { "done", "failed" } /\ file.kind = "ok") =>
        /\ Len(coverage_data) = Cardinality(Keys(coverage_data))
        /\ Keys(coverage_data) \subseteq Names
        /\ \A N \in Names :
              /\ GridStudies(N) =
                    { LabelAt(c) : c \in { d \in DataCells :
                         /\ d[1] \in TablesNamed(N)
                         /\ LabelAt(d) # << >>
                         /\ IsTrueCell(d) } }
              /\ \A T \in GridStudies(N) :
                    PositionsOf(N, T) =
                        { ExpectedPosition(c) : c \in { d \in DataCells :
                             /\ d[1] \in TablesNamed(N)
                             /\ LabelAt(d) = T
                             /\ IsTrueCell(d) } }
        /\ pc = "done" =>
              \A T \in Keys(study_type_coverage), D \in DayTypes :
                 Cardinality(SetOf(study_type_coverage, T, D)) =
                    Cardinality({ N \in Names :
                                    D = NameDayType(N) /\ T \in GridStudies(N) })

\* a sheet named "Unknown" and a sheet without a name, with different study
\* types, merged into one entry that counts as one sheet
C28_Witness ==
    /\ pc = "done"
    /\ Len(file.tables) = 2
    /\ file.tables[1].named # file.tables[2].named
    /\ Keys(coverage_data) = { UnknownName }
    /\ Cardinality(GridStudies(UnknownName)) = 2
    /\ \A T \in Keys(study_type_coverage) :
          SetOf(study_type_coverage, T, "Weekday") = { UnknownName }

\* the entry e is active at hour h of the day type given by weekend
ActiveAt(e, h, weekend) ==
    /\ e.time_range # "Unknown"
    /\ e.start_hour # NoHour /\ e.end_hour # NoHour
    /\ h \in e.start_hour .. (e.end_hour - 1)
    /\ e.is_weekend = weekend

\* the places of all_coverage whose entry is active at hour h
ActivePlaces(h, weekend) ==
    { k \in DOMAIN all_coverage : ActiveAt(all_coverage[k], h, weekend) }

CountedUnder(shift) ==
    IF shift.study_type = << >>
    THEN << "U","n","s","p","e","c","i","f","i","e","d" >>
    ELSE shift.study_type
ShiftStudyTypes == { CountedUnder(shifts[k]) : k \in DOMAIN shifts }

\* the shifts of study type T whose is_weekend is the given value
ShiftsOn(T, weekend) ==
    { k \in DOMAIN shifts :
        CountedUnder(shifts[k]) = T /\ shifts[k].is_weekend = weekend }

\* C30: in the shift-list tool a study type gets a Weekday (Weekend) gap iff
\* it has no shift of day type Weekday (Weekend); shifts of day type Unknown
\* count toward neither, so a study type whose shifts are all Unknown gets
\* both gaps and validation fails; the verdict is PASSED iff the gap list is
\* empty.
C30_UnknownCountsTowardNeither ==
    (tool = "shifts" /\ pc = "done") =>
        /\ Keys(coverage_matrix) = ShiftStudyTypes
        /\ \A T \in ShiftStudyTypes :
              /\ (T \o MissingWeekday) \in Range(gaps) <=> ShiftsOn(T, "False") = {}
              /\ (T \o MissingWeekend) \in Range(gaps) <=> ShiftsOn(T, "True") = {}
              /\ Get(coverage_matrix, T).Unknown = Cardinality(ShiftsOn(T, "None"))
              /\ (\A k \in DOMAIN shifts :
                     CountedUnder(shifts[k]) = T => shifts[k].is_weekend = "None")
                 => /\ (T \o MissingWeekday) \in Range(gaps)
                    /\ (T \o MissingWeekend) \in Range(gaps)
                    /\ printed.verdict = "FAILED"
        /\ \A g \in Range(gaps) :
              \E T \in ShiftStudyTypes : g \in { T \o MissingWeekday, T \o MissingWeekend }
        /\ printed.verdict = "PASSED" <=> gaps = << >>
        /\ printed.verdict = "FAILED" <=> gaps # << >>

\* a study type whose shifts are all of day type Unknown: both its gaps are
\* the gap list and validation fails
C30_Witness ==
    /\ tool = "shifts"
    /\ pc = "done"
    /\ Len(gaps) = 2
    /\ printed.verdict = "FAILED"
    /\ \E T \in ShiftStudyTypes :
          /\ ShiftsOn(T, "None") # {}
          /\ ShiftsOn(T, "False") = {} /\ ShiftsOn(T, "True") = {}
          /\ (T \o MissingWeekday) \in Range(gaps)
          /\ (T \o MissingWeekend) \in Range(gaps)

=============================================================================
